---- MODULE Spec2Model ----
(***************************************************************************)
(* Bar-replay simulator of antiborder/auto-trade                           *)
(*   src/simulation/engine/simulator.py           TradingSimulator         *)
(*   src/simulation/engine/multi_timeframe_simulator.py                    *)
(*                                                FullPositionSimulator    *)
(*   src/scripts/find_best_window_sizes.py        FullPositionSimulator    *)
(*                                                (no entry tracking)      *)
(*   src/shared/agents/ma_agent*.py               MA-cross agent and its   *)
(*                                                stop-loss / trailing     *)
(*                                                overlays                 *)
(*                                                                         *)
(* Arithmetic.  The program computes in IEEE doubles.  The model computes  *)
(* in fixed point and rounds every product and quotient to the nearest     *)
(* grid point, as a float operation rounds to the nearest representable    *)
(* value:  quote amounts (balance, order amount, fee) are in cents, base   *)
(* amounts (btc_holdings, order amount in BTC) in 1/1000 BTC, prices and   *)
(* entry_price in cents per BTC, confidences in 1/1000.  Comparisons of    *)
(* ratios against a percentage are cross-multiplied and exact.             *)
(*                                                                         *)
(* Not modelled: wall-clock values (order ids, decision timestamps), the   *)
(* agent id, and the numbers formatted into the reason strings; a reason   *)
(* is its fixed leading text.                                              *)
(***************************************************************************)
EXTENDS Integers, Sequences, FiniteSets, TLC

VARIABLES
    price_history,        \* run_simulation argument: the closes of the bars
    lookback_window,      \* run_simulation argument
    stop_loss_percentage, \* run_simulation argument, in percent; None if unset
    simKind,              \* class of the simulator object
    agent,                \* the agent object (its attributes)
    balance, btc_holdings, entry_price, trades, decisions,  \* simulator attributes
    i,                    \* loop index of run_simulation (0-based, as in Python)
    pc,                   \* position inside run_simulation
    decision,             \* local of run_simulation: the decision of this bar
    order,                \* local of run_simulation: <<>> is None, else <<order>>
    result,               \* what run_simulation returned or raised
    run,                  \* number of run_simulation calls started on this object
    firstRun,             \* observation: trades and result of the first call
    calls,                \* observation: calls made on the agent/simulator for bar i
    seen,                 \* observation: the bar indices a decision was produced for
    entryBar,             \* observation: index of the bar whose fill opened the position
    history_1h,           \* decide argument of MultiTimeframeAgent: the 1-hour closes
    data_15m, data_1h,    \* align_timeframes arguments: bars [timestamp, price]
    aligned_data,         \* align_timeframes result: rows [bar, idx]
    data_1h_sorted,       \* align_timeframes result: the 1-hour bars sorted
    lookback_window_1h,   \* MultiTimeframeSimulator attribute
    historical_15m,       \* local of MultiTimeframeSimulator.run_simulation (bars)
    historical_1h_window, \* local of MultiTimeframeSimulator.run_simulation (bars)
    finished,             \* observation: parameters and result of every finished run
    driver,               \* the grid-search script that runs
    axes,                 \* its parameter axes, in the order it enumerates them
    n_data,               \* len(price_data) (len(aligned_data) in the multi-timeframe driver)
    log_file,             \* whether a log file was given
    flat_period,          \* whether the first and the last close are equal
    valid_combinations,   \* local of the driver: the tuples to simulate
    combo_idx,            \* local idx of the driver: tuples taken from valid_combinations
    results,              \* local of the driver: the result dicts
    best_result,          \* local of the driver: <<>> is None, else <<result>>
    summary,              \* what the driver reports at the end
    simulated,            \* observation: the tuples run_single_simulation was called for
    raisedFor,            \* observation: the tuples whose simulation raised
    logFailures,          \* observation: number of failed log writes
    call_fee_rate,        \* execute_trade called directly: its fee_rate argument, in 1/1000
    csv_rows,             \* load_price_data_from_csv: the rows of the file
    row_idx,              \* load_price_data_from_csv: rows taken from the reader
    price_data,           \* load_price_data_from_csv: the list it returns
    experiments           \* run_l18_grid_search: plan_data['experiments']

vars == <<price_history, lookback_window, stop_loss_percentage, simKind, agent,
          balance, btc_holdings, entry_price, trades, decisions, i, pc,
          decision, order, result, run, firstRun, calls, seen, entryBar,
          history_1h, data_15m, data_1h, aligned_data, data_1h_sorted,
          lookback_window_1h, historical_15m, historical_1h_window, finished,
          driver, axes, n_data, log_file, flat_period, valid_combinations, combo_idx,
          results, best_result, summary, simulated, raisedFor, logFailures,
          call_fee_rate, csv_rows, row_idx, price_data, experiments>>

\* the variables of the calls made outside run_simulation and the drivers
loaderVars == <<call_fee_rate, csv_rows, row_idx, price_data, experiments>>

\* no such call is made
LoaderIdle ==
    /\ call_fee_rate = 0
    /\ csv_rows = <<>>
    /\ row_idx = 0
    /\ price_data = <<>>
    /\ experiments = <<>>

\* the variables of the grid-search drivers
gridVars == <<driver, axes, n_data, log_file, flat_period, valid_combinations, combo_idx,
              results, best_result, summary, simulated, raisedFor, logFailures>>

\* the variables TradingSimulator.run_simulation does not touch
mtfVars == <<history_1h, data_15m, data_1h, aligned_data, data_1h_sorted,
             lookback_window_1h, historical_15m, historical_1h_window, finished,
             gridVars, loaderVars>>

\* the variables of one simulator and its agent
simVars == <<price_history, lookback_window, stop_loss_percentage, simKind, agent,
             balance, btc_holdings, entry_price, trades, decisions, i,
             decision, order, result, run, firstRun, calls, seen, entryBar>>

\* no grid search runs
GridIdle ==
    /\ driver = "none"
    /\ axes = <<>>
    /\ n_data = 0
    /\ log_file = FALSE
    /\ flat_period = FALSE
    /\ valid_combinations = <<>>
    /\ combo_idx = 0
    /\ results = <<>>
    /\ best_result = <<>>
    /\ summary = <<>>
    /\ simulated = <<>>
    /\ raisedFor = <<>>
    /\ logFailures = 0

\* the variables only MultiTimeframeSimulator uses
mtfRunVars == <<lookback_window_1h, historical_15m, historical_1h_window, finished>>

\* the variables of align_timeframes
alignVars == <<data_15m, data_1h, aligned_data, data_1h_sorted>>

-----------------------------------------------------------------------------
(* Bounds of the exploration *)

MaxBars == 5
MaxRuns == 2

PriceSet == {9450, 9900, 10000, 12000}
LookbackSet == {2}

-----------------------------------------------------------------------------
(* Values *)

None == -1

\* float('nan'), and a conversion that raised ValueError
NaN == -1000000
Raised == -2000000

UnitsPerBtc == 10 ^ 3
CentsPerUsd == 10 ^ 2
\* Constructor arguments.  The program's default balance is 10000.0; the
\* drivers pass any amount, and no driver passes initial_btc.  A balance of
\* 1000.00 keeps every intermediate product inside TLC's integers.
initial_balance == 1000 * CentsPerUsd
initial_btc == 0 * UnitsPerBtc

RoundDiv(a, b) == (2 * a + b) \div (2 * b)

Max(a, b) == IF a >= b THEN a ELSE b
Min(a, b) == IF a <= b THEN a ELSE b

RECURSIVE Sum(_)
Sum(s) == IF s = <<>> THEN 0 ELSE Head(s) + Sum(Tail(s))

RECURSIVE SeqMax(_)
SeqMax(s) == IF Len(s) = 1 THEN s[1] ELSE Max(Head(s), SeqMax(Tail(s)))

LastN(s, n) == IF n >= Len(s) THEN s ELSE SubSeq(s, Len(s) - n + 1, Len(s))

Decision(action, confidence, price, reason) ==
    [action |-> action, confidence |-> confidence, price |-> price, reason |-> reason]

Order(action, amount, price) ==
    [action |-> action, amount |-> amount, price |-> price]

NoDecision == Decision("NONE", 0, 0, "")

-----------------------------------------------------------------------------
(* Agents: src/shared/agents/ma_agent.py, ma_agent_with_stoploss.py,        *)
(*         ma_agent_with_trailing_stop.py                                   *)

NewAgent(kind, short, long, sl, ts) ==
    [kind |-> kind, short_window |-> short, long_window |-> long,
     stop_loss_percentage |-> sl, trailing_stop_percentage |-> ts,
     entry_price |-> None, position_btc |-> 0, highest_price |-> None]

\* the closes MaAgent.decide averages: the last long_window bars of the history
MaWindow(price, hist, long) == LastN(hist, long)

\* variant of MaDecide that buys when the two means are equal
MaDecideBuysOnTie(ag, price, hist) ==
    IF Len(hist) < ag.long_window
    THEN Decision("HOLD", 500, price, "Insufficient historical data")
    ELSE LET recent_prices == MaWindow(price, hist, ag.long_window)
             s == Sum(LastN(recent_prices, ag.short_window)) * ag.long_window
             l == Sum(recent_prices) * ag.short_window
         IN  IF s >= l
             THEN Decision("BUY", Min(900, 500 + RoundDiv(1000 * (s - l), l)),
                           price, "Short MA > Long MA")
             ELSE Decision("SELL", Min(900, 500 + RoundDiv(1000 * (l - s), l)),
                           price, "Short MA < Long MA")

MaDecide(ag, price, hist) ==
    IF Len(hist) < ag.long_window
    THEN Decision("HOLD", 500, price, "Insufficient historical data")
    ELSE LET recent_prices == MaWindow(price, hist, ag.long_window)
             sumShort == Sum(LastN(recent_prices, ag.short_window))
             sumLong  == Sum(recent_prices)
             \* short_ma = sumShort / short_window, long_ma = sumLong / long_window
             s == sumShort * ag.long_window
             l == sumLong * ag.short_window
         IN  IF s > l
             THEN Decision("BUY", Min(900, 500 + RoundDiv(1000 * (s - l), l)),
                           price, "Short MA > Long MA")
             ELSE IF s < l
             THEN Decision("SELL", Min(900, 500 + RoundDiv(1000 * (l - s), l)),
                           price, "Short MA < Long MA")
             ELSE Decision("HOLD", 500, price, "MA crossover neutral")

\* (price - ref) / ref <= -pct, pct in percent
LossTriggered(price, ref, pct) == (price - ref) * 100 <= -(pct * ref)

\* variant of StopLossDecide that leaves entry_price set on a forced SELL
StopLossDecideKeepsEntry(ag, price, hist) ==
    IF /\ ag.entry_price # None
       /\ ag.position_btc > 0
       /\ LossTriggered(price, ag.entry_price, ag.stop_loss_percentage)
    THEN [d  |-> Decision("SELL", 1000, price, "Stop Loss triggered"), ag |-> ag]
    ELSE [d |-> MaDecide(ag, price, hist), ag |-> ag]

\* MaAgentWithStopLoss.decide: the decision and the agent afterwards
StopLossDecide(ag, price, hist) ==
    IF /\ ag.entry_price # None
       /\ ag.position_btc > 0
       /\ LossTriggered(price, ag.entry_price, ag.stop_loss_percentage)
    THEN [d  |-> Decision("SELL", 1000, price, "Stop Loss triggered"),
          ag |-> [ag EXCEPT !.entry_price = None]]
    ELSE [d |-> MaDecide(ag, price, hist), ag |-> ag]

\* variant of TrailingDecide that tests the trailing stop before the stop-loss
TrailingDecideTrailingFirst(ag, price, hist) ==
    LET holding == ag.entry_price # None /\ ag.position_btc > 0
        high == IF ag.highest_price = None THEN price
                ELSE Max(ag.highest_price, price)
        ag1  == IF holding THEN [ag EXCEPT !.highest_price = high] ELSE ag
    IN  IF /\ holding
           /\ LossTriggered(price, ag1.highest_price, ag.trailing_stop_percentage)
        THEN [d  |-> Decision("SELL", 1000, price, "Trailing Stop triggered"),
              ag |-> [ag1 EXCEPT !.entry_price = None, !.highest_price = None]]
        ELSE IF holding /\ LossTriggered(price, ag.entry_price, ag.stop_loss_percentage)
        THEN [d  |-> Decision("SELL", 1000, price, "Stop Loss triggered"),
              ag |-> [ag1 EXCEPT !.entry_price = None, !.highest_price = None]]
        ELSE LET r == StopLossDecide(ag1, price, hist)
             IN  [d  |-> r.d,
                  ag |-> IF r.d.action = "BUY"
                         THEN [r.ag EXCEPT !.highest_price = price]
                         ELSE IF r.d.action = "SELL"
                         THEN [r.ag EXCEPT !.highest_price = None]
                         ELSE r.ag]

\* MaAgentWithTrailingStop.decide
TrailingDecide(ag, price, hist) ==
    LET holding == ag.entry_price # None /\ ag.position_btc > 0
        high == IF ag.highest_price = None THEN price
                ELSE Max(ag.highest_price, price)
        ag1  == IF holding THEN [ag EXCEPT !.highest_price = high] ELSE ag
    IN  IF holding /\ LossTriggered(price, ag.entry_price, ag.stop_loss_percentage)
        THEN [d  |-> Decision("SELL", 1000, price, "Stop Loss triggered"),
              ag |-> [ag1 EXCEPT !.entry_price = None, !.highest_price = None]]
        ELSE IF /\ holding
                /\ ag1.highest_price # None
                /\ LossTriggered(price, ag1.highest_price, ag.trailing_stop_percentage)
        THEN [d  |-> Decision("SELL", 1000, price, "Trailing Stop triggered"),
              ag |-> [ag1 EXCEPT !.entry_price = None, !.highest_price = None]]
        ELSE LET r == StopLossDecide(ag1, price, hist)
             IN  [d  |-> r.d,
                  ag |-> IF r.d.action = "BUY"
                         THEN [r.ag EXCEPT !.highest_price = price]
                         ELSE IF r.d.action = "SELL"
                         THEN [r.ag EXCEPT !.highest_price = None]
                         ELSE r.ag]

AgentDecide(ag, price, hist) ==
    CASE ag.kind = "MaAgent"                 -> [d |-> MaDecide(ag, price, hist), ag |-> ag]
      [] ag.kind = "MaAgentWithStopLoss"     -> StopLossDecide(ag, price, hist)
      [] ag.kind = "MaAgentWithTrailingStop" -> TrailingDecide(ag, price, hist)

\* hasattr(agent, 'update_position')
HasUpdatePosition(ag) == ag.kind \in {"MaAgentWithStopLoss", "MaAgentWithTrailingStop"}

\* len(params) >= 3 and 'current_price' in params
TakesCurrentPrice(ag) == ag.kind = "MaAgentWithTrailingStop"

\* MaAgentWithStopLoss.update_position
StopLossUpdatePosition(ag, entry, holdings) ==
    [ag EXCEPT !.entry_price = entry, !.position_btc = holdings]

\* MaAgentWithTrailingStop.update_position
TrailingUpdatePosition(ag, entry, holdings, current_price) ==
    LET ag1 == StopLossUpdatePosition(ag, entry, holdings)
    IN  IF entry = None \/ holdings <= 0
        THEN [ag1 EXCEPT !.highest_price = None]
        ELSE IF current_price # None
        THEN [ag1 EXCEPT !.highest_price =
                  IF ag1.highest_price = None THEN current_price
                  ELSE Max(ag1.highest_price, current_price)]
        ELSE ag1

-----------------------------------------------------------------------------
(* Indicators: calculate_rsi, calculate_bollinger_bands, calculate_macd of   *)
(* src/shared/agents/rsi_bb_agent.py, macd_bb_agent.py, rsi_macd_agent.py,   *)
(* multi_timeframe_agent.py (the copies are identical).  Indicator values    *)
(* are kept exact: the RSI as a fraction, the Bollinger bands by the sum and *)
(* the squared deviation they are computed from, the EMAs of the MACD as     *)
(* multiples of 1/EmaScale; their comparisons are cross-multiplied.          *)
(* The program's doubles round: a difference that is exactly 0 here can be  *)
(* a few ulps away from 0 there.                                             *)

\* the longest list of closes handed to an indicator, the current bar included
MaxIndBars == 5
\* the longest list of 1-hour closes handed to MultiTimeframeAgent.decide
MaxHourBars == 4

\* deltas = [prices[i] - prices[i-1] for i in range(1, len(prices))]
Deltas(prices) == [k \in 1..(Len(prices) - 1) |-> prices[k + 1] - prices[k]]

\* sum of [d if d > 0 else 0 for d in deltas]
RECURSIVE SumGains(_)
SumGains(deltas) ==
    IF deltas = <<>> THEN 0
    ELSE (IF Head(deltas) > 0 THEN Head(deltas) ELSE 0) + SumGains(Tail(deltas))

\* sum of [-d if d < 0 else 0 for d in deltas]
RECURSIVE SumLosses(_)
SumLosses(deltas) ==
    IF deltas = <<>> THEN 0
    ELSE (IF Head(deltas) < 0 THEN -Head(deltas) ELSE 0) + SumLosses(Tail(deltas))

\* a value calculate_rsi returns: None (ok = FALSE) or the fraction num / den
NoRsi == [ok |-> FALSE, num |-> 0, den |-> 1]

\* calculate_rsi: 100 if avg_loss = 0, else 100 - 100 / (1 + avg_gain / avg_loss)
\* = 100 * gains / (gains + losses)
calculate_rsi(prices, period) ==
    IF Len(prices) < period + 1 THEN NoRsi
    ELSE LET recent_deltas == LastN(Deltas(prices), period)
             gains == SumGains(recent_deltas)
             losses == SumLosses(recent_deltas)
         IN  IF losses = 0 THEN [ok |-> TRUE, num |-> 100, den |-> 1]
             ELSE [ok |-> TRUE, num |-> 100 * gains, den |-> gains + losses]

\* rsi < threshold, rsi > threshold
RsiBelow(rsi, threshold) == rsi.num < threshold * rsi.den
RsiAbove(rsi, threshold) == rsi.num > threshold * rsi.den

RECURSIVE SumSquares(_)
SumSquares(s) == IF s = <<>> THEN 0 ELSE Head(s) * Head(s) + SumSquares(Tail(s))

NoBands == [ok |-> FALSE, period |-> 1, sum |-> 0, dev2 |-> 0, num_std_dev |-> 0]

\* calculate_bollinger_bands over the last period closes: middle = sum / period,
\* std_dev = sqrt(dev2) / period, upper and lower = middle +- num_std_dev * std_dev
calculate_bollinger_bands(prices, period, num_std_dev) ==
    IF Len(prices) < period THEN NoBands
    ELSE LET recent_prices == LastN(prices, period)
         IN  [ok |-> TRUE, period |-> period, sum |-> Sum(recent_prices),
              dev2 |-> period * SumSquares(recent_prices)
                           - Sum(recent_prices) * Sum(recent_prices),
              num_std_dev |-> num_std_dev]

\* variant of AtOrBelowLower with the strict comparison current_price < lower_band
BelowLower(price, bb) ==
    LET d == bb.sum - bb.period * price
    IN  d > 0 /\ d * d > bb.num_std_dev * bb.num_std_dev * bb.dev2

\* current_price <= lower_band
AtOrBelowLower(price, bb) ==
    LET d == bb.sum - bb.period * price
    IN  d >= 0 /\ d * d >= bb.num_std_dev * bb.num_std_dev * bb.dev2

\* current_price >= upper_band
AtOrAboveUpper(price, bb) ==
    LET d == bb.period * price - bb.sum
    IN  d >= 0 /\ d * d >= bb.num_std_dev * bb.num_std_dev * bb.dev2

\* a common denominator of every EMA value of the periods explored
EmaScale == 4 * 3 ^ (MaxIndBars + 1)

\* the loop of calculate_ema: ema_value = prices[i] * multiplier
\* + ema[-1] * (1 - multiplier), multiplier = 2 / (period + 1)
RECURSIVE EmaFrom(_, _, _, _)
EmaFrom(prices, period, k, ema) ==
    IF k > Len(prices) THEN ema
    ELSE EmaFrom(prices, period, k + 1,
                 Append(ema, (2 * prices[k] + (period - 1) * ema[Len(ema)])
                                 \div (period + 1)))

\* calculate_ema: the first value is the simple mean of the first period values
calculate_ema(prices, period) ==
    EmaFrom(prices, period, period + 1,
            <<Sum(SubSeq(prices, 1, period)) \div period>>)

NoMacd == [ok |-> FALSE, macd |-> 0, signal |-> 0, histogram |-> 0]

\* calculate_macd; macd, signal and histogram in 1/EmaScale
calculate_macd(prices, fast_period, slow_period, signal_period) ==
    IF Len(prices) < slow_period + signal_period THEN NoMacd
    ELSE LET scaled == [k \in 1..Len(prices) |-> prices[k] * EmaScale]
             fast_ema == calculate_ema(scaled, fast_period)
             slow_ema == calculate_ema(scaled, slow_period)
             offset == Len(fast_ema) - Len(slow_ema)
             macd_line == [k \in 1..Len(slow_ema) |-> fast_ema[offset + k] - slow_ema[k]]
         IN  IF Len(macd_line) < signal_period THEN NoMacd
             ELSE LET signal_line == calculate_ema(macd_line, signal_period)
                  IN  [ok |-> TRUE,
                       macd |-> macd_line[Len(macd_line)],
                       signal |-> signal_line[Len(signal_line)],
                       histogram |-> macd_line[Len(macd_line)]
                                         - signal_line[Len(signal_line)]]

\* macd_buy_signal = histogram > 0 and macd > signal
MacdBuySignal(m) == m.histogram > 0 /\ m.macd > m.signal

\* macd_sell_signal = histogram < 0 and macd < signal
MacdSellSignal(m) == m.histogram < 0 /\ m.macd < m.signal

-----------------------------------------------------------------------------
(* Indicator agents: RSIBBAgent, MACDBBAgent, RSIMACDBBAgent,                *)
(* MultiTimeframeAgent.  decide computes on historical_data + [price].       *)

NewIndicatorAgent(kind, rsi_period, rsi_oversold, rsi_overbought, macd_fast, macd_slow, macd_signal, bb_period, bb_num_std_dev) ==
    [kind |-> kind, rsi_period |-> rsi_period, rsi_oversold |-> rsi_oversold,
     rsi_overbought |-> rsi_overbought, macd_fast |-> macd_fast,
     macd_slow |-> macd_slow, macd_signal |-> macd_signal,
     bb_period |-> bb_period, bb_num_std_dev |-> bb_num_std_dev]

\* variant of RSIBBDecide that trades when either indicator signals
RSIBBDecideEither(ag, price, hist) ==
    IF Len(hist) < Max(ag.rsi_period + 1, ag.bb_period)
    THEN Decision("HOLD", 500, price, "Insufficient historical data")
    ELSE LET prices == Append(hist, price)
             rsi == calculate_rsi(prices, ag.rsi_period)
             bb_data == calculate_bollinger_bands(prices, ag.bb_period, ag.bb_num_std_dev)
         IN  IF RsiBelow(rsi, ag.rsi_oversold) \/ AtOrBelowLower(price, bb_data)
             THEN Decision("BUY", 900, price, "RSI oversold")
             ELSE IF RsiAbove(rsi, ag.rsi_overbought) \/ AtOrAboveUpper(price, bb_data)
             THEN Decision("SELL", 900, price, "RSI overbought")
             ELSE Decision("HOLD", 500, price, "Not all 2 signals align")

\* RSIBBAgent.decide
RSIBBDecide(ag, price, hist) ==
    IF Len(hist) < Max(ag.rsi_period + 1, ag.bb_period)
    THEN Decision("HOLD", 500, price, "Insufficient historical data")
    ELSE LET prices == Append(hist, price)
             rsi == calculate_rsi(prices, ag.rsi_period)
             bb_data == calculate_bollinger_bands(prices, ag.bb_period, ag.bb_num_std_dev)
             rsi_buy_signal == RsiBelow(rsi, ag.rsi_oversold)
             rsi_sell_signal == RsiAbove(rsi, ag.rsi_overbought)
             bb_buy_signal == AtOrBelowLower(price, bb_data)
             bb_sell_signal == AtOrAboveUpper(price, bb_data)
         IN  IF ~rsi.ok \/ ~bb_data.ok
             THEN Decision("HOLD", 500, price, "RSI or Bollinger Bands calculation failed")
             ELSE IF rsi_buy_signal /\ bb_buy_signal
             THEN Decision("BUY", 900, price, "RSI oversold")
             ELSE IF rsi_sell_signal /\ bb_sell_signal
             THEN Decision("SELL", 900, price, "RSI overbought")
             ELSE Decision("HOLD", 500, price, "Not all 2 signals align")

\* MACDBBAgent.decide
MACDBBDecide(ag, price, hist) ==
    IF Len(hist) < Max(ag.macd_slow + ag.macd_signal, ag.bb_period)
    THEN Decision("HOLD", 500, price, "Insufficient historical data")
    ELSE LET prices == Append(hist, price)
             macd_data == calculate_macd(prices, ag.macd_fast, ag.macd_slow, ag.macd_signal)
             bb_data == calculate_bollinger_bands(prices, ag.bb_period, ag.bb_num_std_dev)
             macd_buy_signal == MacdBuySignal(macd_data)
             macd_sell_signal == MacdSellSignal(macd_data)
             bb_buy_signal == AtOrBelowLower(price, bb_data)
             bb_sell_signal == AtOrAboveUpper(price, bb_data)
         IN  IF ~macd_data.ok \/ ~bb_data.ok
             THEN Decision("HOLD", 500, price, "MACD or Bollinger Bands calculation failed")
             ELSE IF macd_buy_signal /\ bb_buy_signal
             THEN Decision("BUY", 900, price, "MACD bullish")
             ELSE IF macd_sell_signal /\ bb_sell_signal
             THEN Decision("SELL", 900, price, "MACD bearish")
             ELSE Decision("HOLD", 500, price, "Not all 2 signals align")

\* the decision of the three-indicator agents from the three signal pairs:
\* buy_signals_count == 3, sell_signals_count == 3
ThreeSignals(price, rsi_buy, rsi_sell, macd_buy, macd_sell, bb_buy, bb_sell) ==
    IF rsi_buy /\ macd_buy /\ bb_buy
    THEN Decision("BUY", 900, price, "RSI oversold")
    ELSE IF rsi_sell /\ macd_sell /\ bb_sell
    THEN Decision("SELL", 900, price, "RSI overbought")
    ELSE Decision("HOLD", 500, price, "Not all 3 signals align")

\* RSIMACDBBAgent.decide
RSIMACDBBDecide(ag, price, hist) ==
    IF Len(hist) < Max(Max(ag.macd_slow + ag.macd_signal, ag.rsi_period + 1), ag.bb_period)
    THEN Decision("HOLD", 500, price, "Insufficient historical data")
    ELSE LET prices == Append(hist, price)
             rsi == calculate_rsi(prices, ag.rsi_period)
             macd_data == calculate_macd(prices, ag.macd_fast, ag.macd_slow, ag.macd_signal)
             bb_data == calculate_bollinger_bands(prices, ag.bb_period, ag.bb_num_std_dev)
         IN  IF ~rsi.ok \/ ~macd_data.ok \/ ~bb_data.ok
             THEN Decision("HOLD", 500, price,
                           "RSI, MACD, or Bollinger Bands calculation failed")
             ELSE ThreeSignals(price,
                      RsiBelow(rsi, ag.rsi_oversold), RsiAbove(rsi, ag.rsi_overbought),
                      MacdBuySignal(macd_data), MacdSellSignal(macd_data),
                      AtOrBelowLower(price, bb_data), AtOrAboveUpper(price, bb_data))

\* MultiTimeframeAgent.decide: RSI and bands from the 15-minute closes, MACD
\* from the 1-hour closes with the last one repeated
MultiTimeframeDecide(ag, price, hist, hist_1h) ==
    IF Len(hist) < Max(ag.rsi_period + 1, ag.bb_period)
    THEN Decision("HOLD", 500, price, "Insufficient 15-minute historical data")
    ELSE IF Len(hist_1h) = 0
    THEN Decision("HOLD", 500, price, "No 1-hour historical data provided")
    ELSE IF Len(hist_1h) < ag.macd_slow + ag.macd_signal
    THEN Decision("HOLD", 500, price, "Insufficient 1-hour historical data")
    ELSE LET prices_15m == Append(hist, price)
             rsi == calculate_rsi(prices_15m, ag.rsi_period)
             bb_data == calculate_bollinger_bands(prices_15m, ag.bb_period,
                                                  ag.bb_num_std_dev)
             prices_1h == Append(hist_1h, hist_1h[Len(hist_1h)])
             macd_data == calculate_macd(prices_1h, ag.macd_fast, ag.macd_slow,
                                         ag.macd_signal)
         IN  IF ~rsi.ok \/ ~bb_data.ok \/ ~macd_data.ok
             THEN Decision("HOLD", 500, price,
                           "RSI, Bollinger Bands, or MACD calculation failed")
             ELSE ThreeSignals(price,
                      RsiBelow(rsi, ag.rsi_oversold), RsiAbove(rsi, ag.rsi_overbought),
                      MacdBuySignal(macd_data), MacdSellSignal(macd_data),
                      AtOrBelowLower(price, bb_data), AtOrAboveUpper(price, bb_data))

IndicatorKinds == {"RSIBBAgent", "MACDBBAgent", "RSIMACDBBAgent", "MultiTimeframeAgent"}

\* agent.decide(price_data, historical_data [, historical_data_1h]) called directly
DirectDecide(ag, price, hist, hist_1h) ==
    CASE ag.kind = "RSIBBAgent" -> RSIBBDecide(ag, price, hist)
      [] ag.kind = "MACDBBAgent" -> MACDBBDecide(ag, price, hist)
      [] ag.kind = "RSIMACDBBAgent" -> RSIMACDBBDecide(ag, price, hist)
      [] ag.kind = "MultiTimeframeAgent" -> MultiTimeframeDecide(ag, price, hist, hist_1h)
      [] OTHER -> AgentDecide(ag, price, hist).d

-----------------------------------------------------------------------------
(* Fill models: execute_trade of the three simulator classes                *)

\* fee_rate = 0.001, in 1/1000
DefaultFeeRate == 1

\* variant of Fee that charges ten times the rate
FeeTenfold(order_amount_usd, fee_rate) == RoundDiv(order_amount_usd * fee_rate, 100)

\* order_amount_usd * fee_rate
Fee(order_amount_usd, fee_rate) == RoundDiv(order_amount_usd * fee_rate, 1000)

\* order_amount_usd / current_price
BtcFor(order_amount_usd, price) == RoundDiv(order_amount_usd * UnitsPerBtc, price)

\* btc_amount * current_price
UsdFor(btc_amount, price) == RoundDiv(btc_amount * price, UnitsPerBtc)

\* variant of SellProceeds with the operands exchanged
SellProceedsSwapped(order_amount_usd, fee) == fee - order_amount_usd

\* self.balance += (order_amount_usd - fee)
SellProceeds(order_amount_usd, fee) == order_amount_usd - fee

\* variant of EntryAfterBuy that takes the price of the last fill
EntryAfterBuyLastFill(entry, old_btc, btc_amount, price) == price

\* the entry price after a BUY of btc_amount at price on top of old_btc
EntryAfterBuy(entry, old_btc, btc_amount, price) ==
    IF entry = None THEN price
    ELSE IF old_btc + btc_amount > 0
    THEN RoundDiv(old_btc * entry + btc_amount * price, old_btc + btc_amount)
    ELSE entry

Sim(bal, hold, entry, ord) ==
    [balance |-> bal, btc_holdings |-> hold, entry_price |-> entry, order |-> ord]

\* variant of NoHoldings that lets an empty position through
NoHoldingsStrict(hold) == hold < 0

\* if self.btc_holdings <= 0: return None
NoHoldings(hold) == hold <= 0

\* TradingSimulator: if order_amount_usd + fee > self.balance: return None
FracInsufficient(bal, order_amount_usd, fee) == order_amount_usd + fee > bal

\* FullPositionSimulator: if self.balance <= 0: return None
FullInsufficient(bal) == bal <= 0

\* self.balance * 0.1, self.btc_holdings * 0.1
Tenth(x) == RoundDiv(x, 10)

\* TradingSimulator.execute_trade
FracExecute(bal, hold, entry, d, price, fee_rate) ==
    IF d.action = "BUY"
    THEN LET order_amount_usd == Tenth(bal)
             btc_amount == BtcFor(order_amount_usd, price)
             fee == Fee(order_amount_usd, fee_rate)
         IN  IF FracInsufficient(bal, order_amount_usd, fee)
             THEN Sim(bal, hold, entry, <<>>)
             ELSE Sim(bal - (order_amount_usd + fee), hold + btc_amount,
                      EntryAfterBuy(entry, hold, btc_amount, price),
                      <<Order("BUY", btc_amount, price)>>)
    ELSE IF d.action = "SELL"
    THEN IF NoHoldings(hold)
         THEN Sim(bal, hold, entry, <<>>)
         ELSE LET btc_amount == Tenth(hold)
                  order_amount_usd == UsdFor(btc_amount, price)
                  fee == Fee(order_amount_usd, fee_rate)
              IN  Sim(bal + SellProceeds(order_amount_usd, fee), hold - btc_amount,
                      IF hold - btc_amount <= 0 THEN None ELSE entry,
                      <<Order("SELL", btc_amount, price)>>)
    ELSE Sim(bal, hold, entry, <<>>)

\* variant of FullBuyBalance that debits the order amount and forgets the fee
FullBuyBalanceLessOrder(bal, order_amount_usd, fee) == bal - order_amount_usd

\* self.balance = 0 after a full-position BUY
FullBuyBalance(bal, order_amount_usd, fee) == 0

\* variant of FullSellHoldings that keeps nine tenths of the position
FullSellHoldingsKeepsRest(hold, btc_amount) == hold - Tenth(hold)

\* self.btc_holdings = 0 after a full-position SELL
FullSellHoldings(hold, btc_amount) == 0

\* FullPositionSimulator.execute_trade; tracks says whether the class maintains
\* entry_price (every copy does, except the one in find_best_window_sizes.py)
FullExecute(bal, hold, entry, d, price, fee_rate, tracks) ==
    IF d.action = "BUY"
    THEN IF FullInsufficient(bal)
         THEN Sim(bal, hold, entry, <<>>)
         ELSE LET order_amount_usd == RoundDiv(bal * 1000, 1000 + fee_rate)
                  btc_amount == BtcFor(order_amount_usd, price)
                  fee == Fee(order_amount_usd, fee_rate)
              IN  Sim(FullBuyBalance(bal, order_amount_usd, fee), hold + btc_amount,
                      IF tracks THEN EntryAfterBuy(entry, hold, btc_amount, price)
                      ELSE entry,
                      <<Order("BUY", btc_amount, price)>>)
    ELSE IF d.action = "SELL"
    THEN IF NoHoldings(hold)
         THEN Sim(bal, hold, entry, <<>>)
         ELSE LET btc_amount == hold
                  order_amount_usd == UsdFor(btc_amount, price)
                  fee == Fee(order_amount_usd, fee_rate)
              IN  Sim(bal + SellProceeds(order_amount_usd, fee),
                      FullSellHoldings(hold, btc_amount),
                      IF tracks THEN None ELSE entry,
                      <<Order("SELL", btc_amount, price)>>)
    ELSE Sim(bal, hold, entry, <<>>)

SimKinds == {"TradingSimulator", "FullPositionSimulator", "FullPositionSimulatorNoEntry"}

FullMode(kind) == kind \in {"FullPositionSimulator", "FullPositionSimulatorNoEntry"}

\* variant of execute_trade that fills a HOLD decision as a BUY
execute_tradeHoldAsBuy(kind, bal, hold, entry, d, price, fee_rate) ==
    LET d1 == IF d.action = "HOLD" THEN [d EXCEPT !.action = "BUY"] ELSE d
    IN  CASE kind = "TradingSimulator" ->
                 FracExecute(bal, hold, entry, d1, price, fee_rate)
          [] kind = "FullPositionSimulator" ->
                 FullExecute(bal, hold, entry, d1, price, fee_rate, TRUE)
          [] kind = "FullPositionSimulatorNoEntry" ->
                 FullExecute(bal, hold, entry, d1, price, fee_rate, FALSE)

execute_trade(kind, bal, hold, entry, d, price, fee_rate) ==
    CASE kind = "TradingSimulator" ->
             FracExecute(bal, hold, entry, d, price, fee_rate)
      [] kind = "FullPositionSimulator" ->
             FullExecute(bal, hold, entry, d, price, fee_rate, TRUE)
      [] kind = "FullPositionSimulatorNoEntry" ->
             FullExecute(bal, hold, entry, d, price, fee_rate, FALSE)

-----------------------------------------------------------------------------
(* run_simulation: src/simulation/engine/simulator.py                       *)

AgentKinds == {"MaAgent", "MaAgentWithStopLoss", "MaAgentWithTrailingStop"}

\* percentages the drivers pass, in percent
AgentStopLoss == 7
AgentTrailingStop == 5
StopLossChoices == {None, 5}

AllSeries == UNION {[1..n -> PriceSet] : n \in 0..MaxBars}

\* scenario 1 of the specification: ten one-minute bars, short 2, long 4, lookback 4
Scenario1Bars == <<10000, 10000, 10000, 10000, 10000, 10200, 10400, 10600, 10800, 11000>>

\* the simulator / agent / stop-loss combinations that are run; the copy of
\* FullPositionSimulator in find_best_window_sizes.py is run with a plain
\* moving-average agent and no stop-loss
Setups ==
    {su \in [sim : SimKinds, agent : AgentKinds, sl : StopLossChoices] :
        su.sim = "FullPositionSimulatorNoEntry" => (su.agent = "MaAgent" /\ su.sl = None)}

NoResult == [status |-> "none", final_balance |-> 0, final_btc |-> 0, final_value |-> 0,
             total_profit |-> 0, profit_percentage |-> 0, total_trades |-> 0,
             buy_trades |-> 0, sell_trades |-> 0, stop_loss_trades |-> 0]

NoFirstRun == [trades |-> <<>>, decisions |-> <<>>, result |-> NoResult]

InitWith(bars, lookback, sl, kind, ag) ==
    /\ price_history = bars
    /\ lookback_window = lookback
    /\ stop_loss_percentage = sl
    /\ simKind = kind
    /\ agent = ag
    /\ balance = initial_balance
    /\ btc_holdings = initial_btc
    /\ entry_price = None
    /\ trades = <<>>
    /\ decisions = <<>>
    /\ i = 0
    /\ pc = "idle"
    /\ decision = NoDecision
    /\ order = <<>>
    /\ result = NoResult
    /\ run = 0
    /\ firstRun = NoFirstRun
    /\ calls = <<>>
    /\ seen = <<>>
    /\ entryBar = None
    /\ history_1h = <<>>
    /\ data_15m = <<>>
    /\ data_1h = <<>>
    /\ aligned_data = <<>>
    /\ data_1h_sorted = <<>>
    /\ lookback_window_1h = 0
    /\ historical_15m = <<>>
    /\ historical_1h_window = <<>>
    /\ finished = <<>>
    /\ GridIdle
    /\ LoaderIdle

Init ==
    \/ \E su \in Setups, bars \in AllSeries, lookback \in LookbackSet :
           InitWith(bars, lookback, su.sl, su.sim,
                    NewAgent(su.agent, 1, 2, AgentStopLoss, AgentTrailingStop))
    \/ InitWith(Scenario1Bars, 4, None, "FullPositionSimulator",
                NewAgent("MaAgent", 2, 4, AgentStopLoss, AgentTrailingStop))

\* len([t for t in self.trades if t.action == a])
CountAction(log, a) == Cardinality({k \in 1..Len(log) : log[k].action = a})

\* variant of CountReason that counts every forced exit, trailing stops too
CountReasonAnyStop(log, text) ==
    Cardinality({k \in 1..Len(log) : log[k].reason \in {text, "Trailing Stop triggered"}})

\* len([d for d in self.decisions if text in d.reason])
CountReason(log, text) == Cardinality({k \in 1..Len(log) : log[k].reason = text})

\* the dict run_simulation returns (logs are the variables trades, decisions)
Metrics ==
    LET final_price == price_history[Len(price_history)]
        final_value == balance + UsdFor(btc_holdings, final_price)
        total_profit == final_value - initial_balance
    IN  [status |-> "ok", final_balance |-> balance, final_btc |-> btc_holdings,
         final_value |-> final_value, total_profit |-> total_profit,
         \* (total_profit / initial_balance) * 100, in 1/10 percent
         profit_percentage |-> RoundDiv(total_profit * 1000, initial_balance),
         total_trades |-> Len(trades),
         buy_trades |-> CountAction(trades, "BUY"),
         sell_trades |-> CountAction(trades, "SELL"),
         stop_loss_trades |-> CountReason(decisions, "Stop Loss triggered")]

\* price_history[-1] on an empty list
IndexError == [NoResult EXCEPT !.status = "IndexError"]

\* the position-opening bar after a fill
EntryBarAfter(holdBefore, holdAfter) ==
    IF holdAfter <= 0 THEN None
    ELSE IF holdBefore <= 0 THEN i
    ELSE entryBar

\* a call of run_simulation: self.reset(), then the loop starts at lookback_window
RunSimulation ==
    /\ pc \in {"idle", "done"}
    /\ run < MaxRuns
    /\ run' = run + 1
    /\ firstRun' = IF run = 1
                   THEN [trades |-> trades, decisions |-> decisions, result |-> result]
                   ELSE firstRun
    /\ balance' = initial_balance
    /\ btc_holdings' = initial_btc
    /\ trades' = <<>>
    /\ decisions' = <<>>
    /\ entry_price' = None
    /\ i' = lookback_window
    /\ pc' = "loop"
    /\ decision' = NoDecision
    /\ order' = <<>>
    /\ result' = NoResult
    /\ calls' = <<>>
    /\ seen' = <<>>
    /\ entryBar' = None
    /\ UNCHANGED <<price_history, lookback_window, stop_loss_percentage, simKind, agent>>
    /\ UNCHANGED mtfVars

\* the simulator-level stop-loss condition of bar i
SimStopLoss ==
    /\ stop_loss_percentage # None
    /\ entry_price # None
    /\ btc_holdings > 0
    /\ LossTriggered(price_history[i + 1], entry_price, stop_loss_percentage)

\* variant of ForcedSale that keeps the entry price of the sold position
ForcedSaleKeepsEntry(bal, hold, entry, price) ==
    LET order_amount_usd == UsdFor(hold, price)
    IN  Sim(bal + order_amount_usd - Fee(order_amount_usd, 1), 0, entry,
            <<Order("SELL", hold, price)>>)

\* lines 149-155: the whole position is sold at the bar's price, fee 0.001
ForcedSale(bal, hold, entry, price) ==
    LET btc_amount == hold
        order_amount_usd == UsdFor(btc_amount, price)
        fee == Fee(order_amount_usd, 1)
    IN  Sim(bal + SellProceeds(order_amount_usd, fee), 0, None,
            <<Order("SELL", btc_amount, price)>>)

\* lines 134-172: the stop-loss check fires; synthetic decision and order, continue
StopLossSale ==
    /\ pc = "loop"
    /\ i < Len(price_history)
    /\ SimStopLoss
    /\ LET price == price_history[i + 1]
           r == ForcedSale(balance, btc_holdings, entry_price, price)
       IN  /\ btc_holdings' = r.btc_holdings
           /\ balance' = r.balance
           /\ entry_price' = r.entry_price
           /\ trades' = Append(trades, r.order[1])
           /\ decisions' = Append(decisions,
                                  Decision("SELL", 1000, price, "Stop Loss triggered"))
           /\ entryBar' = EntryBarAfter(btc_holdings, r.btc_holdings)
    /\ calls' = <<"stop_loss_sale">>
    /\ seen' = Append(seen, i)
    /\ i' = i + 1
    /\ UNCHANGED <<price_history, lookback_window, stop_loss_percentage, simKind, agent,
                   pc, decision, order, result, run, firstRun>>
    /\ UNCHANGED mtfVars

\* variant of HistoryAt whose window ends with the current bar
HistoryAtInclusive(k) == SubSeq(price_history, k - lookback_window + 2, k + 1)

\* line 131: historical_data = price_history[i-lookback_window:i]
HistoryAt(k) == SubSeq(price_history, k - lookback_window + 1, k)

\* line 175: decision = agent.decide(current_price_data, historical_data)
Decide ==
    /\ pc = "loop"
    /\ i < Len(price_history)
    /\ ~SimStopLoss
    /\ LET r == AgentDecide(agent, price_history[i + 1], HistoryAt(i))
       IN  /\ decision' = r.d
           /\ agent' = r.ag
    /\ calls' = <<"decide">>
    /\ seen' = Append(seen, i)
    /\ pc' = IF HasUpdatePosition(agent) THEN "update" ELSE "execute"
    /\ UNCHANGED <<price_history, lookback_window, stop_loss_percentage, simKind,
                   balance, btc_holdings, entry_price, trades, decisions, i,
                   order, result, run, firstRun, entryBar>>
    /\ UNCHANGED mtfVars

\* lines 178-189: agent.update_position(entry_price, btc_holdings [, price])
UpdatePosition ==
    /\ pc = "update"
    /\ agent' = IF TakesCurrentPrice(agent)
                THEN TrailingUpdatePosition(agent, entry_price, btc_holdings,
                                            price_history[i + 1])
                ELSE StopLossUpdatePosition(agent, entry_price, btc_holdings)
    /\ calls' = Append(calls, "update_position")
    /\ pc' = "execute"
    /\ UNCHANGED <<price_history, lookback_window, stop_loss_percentage, simKind,
                   balance, btc_holdings, entry_price, trades, decisions, i,
                   decision, order, result, run, firstRun, seen, entryBar>>
    /\ UNCHANGED mtfVars

\* line 192: order = self.execute_trade(decision, current_price_data.price);
\* an executed order and its decision are appended to the two logs
ExecuteTrade ==
    /\ pc = "execute"
    /\ LET r == execute_trade(simKind, balance, btc_holdings, entry_price, decision,
                              price_history[i + 1], DefaultFeeRate)
       IN  /\ balance' = r.balance
           /\ btc_holdings' = r.btc_holdings
           /\ entry_price' = r.entry_price
           /\ order' = r.order
           /\ trades' = IF r.order = <<>> THEN trades ELSE Append(trades, r.order[1])
           /\ decisions' = IF r.order = <<>> THEN decisions
                           ELSE Append(decisions, decision)
           /\ entryBar' = EntryBarAfter(btc_holdings, r.btc_holdings)
    /\ calls' = Append(calls, "execute_trade")
    /\ i' = i + 1
    /\ pc' = "loop"
    /\ UNCHANGED <<price_history, lookback_window, stop_loss_percentage, simKind, agent,
                   decision, result, run, firstRun, seen>>
    /\ UNCHANGED mtfVars

\* lines 194-213: the final evaluation, or the IndexError of price_history[-1]
Finish ==
    /\ pc = "loop"
    /\ i >= Len(price_history)
    /\ result' = IF Len(price_history) = 0 THEN IndexError ELSE Metrics
    /\ pc' = "done"
    /\ UNCHANGED <<price_history, lookback_window, stop_loss_percentage, simKind, agent,
                   balance, btc_holdings, entry_price, trades, decisions, i,
                   decision, order, run, firstRun, calls, seen, entryBar>>
    /\ UNCHANGED mtfVars

Next ==
    \/ RunSimulation
    \/ StopLossSale
    \/ Decide
    \/ UpdatePosition
    \/ ExecuteTrade
    \/ Finish

Spec == Init /\ [][Next]_vars

-----------------------------------------------------------------------------
(* decide called directly on an agent, outside run_simulation                *)

IndPriceSet == {6, 10, 13}

IndSeries == UNION {[1..n -> IndPriceSet] : n \in 1..MaxIndBars}

HourSeries == UNION {[1..n -> IndPriceSet] : n \in 0..MaxHourBars}

\* default thresholds rsi_oversold = 30.0, rsi_overbought = 70.0
DefaultOversold == 30
DefaultOverbought == 70

\* (bb_period, bb_num_std_dev) explored
BandChoices == {<<2, 1>>, <<3, 2>>}

\* the agents decide is called on: periods short enough for MaxIndBars closes
DirectAgents ==
    {NewAgent("MaAgent", 1, 2, AgentStopLoss, AgentTrailingStop)}
    \cup {NewIndicatorAgent(kind, 2, DefaultOversold, DefaultOverbought, 1, 2, 2,
                            b[1], b[2]) :
              kind \in {"RSIBBAgent", "MACDBBAgent", "RSIMACDBBAgent"}, b \in BandChoices}
    \cup {NewIndicatorAgent("MultiTimeframeAgent", 2, DefaultOversold, DefaultOverbought,
                            1, 2, 2, 2, 1)}

InitDirect ==
    \E ag \in DirectAgents, bars \in IndSeries, hours \in HourSeries :
        /\ (ag.kind # "MultiTimeframeAgent" => hours = <<>>)
        /\ price_history = bars
        /\ history_1h = hours
        /\ agent = ag
        /\ lookback_window = Len(bars) - 1
        /\ stop_loss_percentage = None
        /\ simKind = "TradingSimulator"
        /\ balance = initial_balance
        /\ btc_holdings = initial_btc
        /\ entry_price = None
        /\ trades = <<>>
        /\ decisions = <<>>
        /\ i = Len(bars) - 1
        /\ pc = "call"
        /\ decision = NoDecision
        /\ order = <<>>
        /\ result = NoResult
        /\ run = 0
        /\ firstRun = NoFirstRun
        /\ calls = <<>>
        /\ seen = <<>>
        /\ entryBar = None
        /\ data_15m = <<>>
        /\ data_1h = <<>>
        /\ aligned_data = <<>>
        /\ data_1h_sorted = <<>>
        /\ lookback_window_1h = 0
        /\ historical_15m = <<>>
        /\ historical_1h_window = <<>>
        /\ finished = <<>>
    /\ GridIdle
    /\ LoaderIdle
        /\ GridIdle
        /\ LoaderIdle

\* decision = agent.decide(bars[-1], bars[:-1] [, hours])
DirectCall ==
    /\ pc = "call"
    /\ decision' = DirectDecide(agent, price_history[Len(price_history)],
                                SubSeq(price_history, 1, Len(price_history) - 1),
                                history_1h)
    /\ pc' = "returned"
    /\ UNCHANGED <<price_history, lookback_window, stop_loss_percentage, simKind, agent,
                   balance, btc_holdings, entry_price, trades, decisions, i,
                   order, result, run, firstRun, calls, seen, entryBar, history_1h>>
    /\ UNCHANGED alignVars
    /\ UNCHANGED mtfRunVars
    /\ UNCHANGED <<gridVars, loaderVars>>

NextDirect == DirectCall

SpecDirect == InitDirect /\ [][NextDirect]_vars

-----------------------------------------------------------------------------
(* align_timeframes: src/simulation/engine/multi_timeframe_simulator.py      *)

\* the most 15-minute and 1-hour bars handed to align_timeframes
MaxFast == 3
MaxSlow == 3

Bar(timestamp, price) == [timestamp |-> timestamp, price |-> price]

\* one step of a stable sort by timestamp: b goes behind every bar not later
InsertByTimestamp(s, b) ==
    LET k == Cardinality({j \in 1..Len(s) : s[j].timestamp <= b.timestamp})
    IN  SubSeq(s, 1, k) \o <<b>> \o SubSeq(s, k + 1, Len(s))

\* sorted(data, key=lambda x: x.timestamp)
RECURSIVE SortedByTimestamp(_)
SortedByTimestamp(data) ==
    IF data = <<>> THEN <<>>
    ELSE InsertByTimestamp(SortedByTimestamp(SubSeq(data, 1, Len(data) - 1)),
                           data[Len(data)])

\* variant of BisectRight that stops left of equal values (bisect_left)
RECURSIVE BisectLeft(_, _, _, _)
BisectLeft(a, x, lo, hi) ==
    IF lo >= hi THEN lo
    ELSE LET mid == (lo + hi) \div 2
         IN  IF x <= a[mid + 1] THEN BisectLeft(a, x, lo, mid)
             ELSE BisectLeft(a, x, mid + 1, hi)

\* bisect.bisect_right(a, x) between lo and hi (0-based, as in Python)
RECURSIVE BisectRight(_, _, _, _)
BisectRight(a, x, lo, hi) ==
    IF lo >= hi THEN lo
    ELSE LET mid == (lo + hi) \div 2
         IN  IF x < a[mid + 1] THEN BisectRight(a, x, lo, mid)
             ELSE BisectRight(a, x, mid + 1, hi)

\* the loop of align_timeframes over the sorted 15-minute bars from the k-th
RECURSIVE AlignFrom(_, _, _, _)
AlignFrom(sorted_15m, timestamps_1h, k, rows) ==
    IF k > Len(sorted_15m) THEN rows
    ELSE LET price_15m == sorted_15m[k]
             idx == BisectRight(timestamps_1h, price_15m.timestamp, 0, Len(timestamps_1h))
         IN  AlignFrom(sorted_15m, timestamps_1h, k + 1,
                       IF idx > 0 THEN Append(rows, [bar |-> price_15m, idx |-> idx])
                       ELSE rows)

\* align_timeframes(data_15m, data_1h): aligned_data and data_1h_sorted
align_timeframes(fast, slow) ==
    LET sorted_1h == SortedByTimestamp(slow)
        timestamps_1h == [k \in 1..Len(sorted_1h) |-> sorted_1h[k].timestamp]
        sorted_15m == SortedByTimestamp(fast)
    IN  [aligned_data |-> AlignFrom(sorted_15m, timestamps_1h, 1, <<>>),
         data_1h_sorted |-> sorted_1h]

\* bars of the two series, in minutes from the first hour
FastBars == {Bar(t, p) : t \in {15, 60, 75}, p \in {100, 101}}
SlowBars == {Bar(t, 200) : t \in {30, 60}}

FastInputs == UNION {[1..n -> FastBars] : n \in 0..MaxFast}
SlowInputs == UNION {[1..n -> SlowBars] : n \in 0..MaxSlow}

\* scenario 4 of the specification
Scenario4Fast == <<Bar(0, 100), Bar(15, 101), Bar(30, 102), Bar(45, 103),
                   Bar(60, 104), Bar(75, 105)>>
Scenario4Slow == <<Bar(0, 200), Bar(60, 201)>>

InitAlign ==
    /\ \/ \E fast \in FastInputs, slow \in SlowInputs :
              data_15m = fast /\ data_1h = slow
       \/ data_15m = Scenario4Fast /\ data_1h = Scenario4Slow
    /\ aligned_data = <<>>
    /\ data_1h_sorted = <<>>
    /\ lookback_window_1h = 0
    /\ historical_15m = <<>>
    /\ historical_1h_window = <<>>
    /\ finished = <<>>
    /\ GridIdle
    /\ LoaderIdle
    /\ pc = "align"
    /\ price_history = <<>>
    /\ history_1h = <<>>
    /\ agent = NewAgent("MaAgent", 1, 2, AgentStopLoss, AgentTrailingStop)
    /\ lookback_window = 0
    /\ stop_loss_percentage = None
    /\ simKind = "TradingSimulator"
    /\ balance = initial_balance
    /\ btc_holdings = initial_btc
    /\ entry_price = None
    /\ trades = <<>>
    /\ decisions = <<>>
    /\ i = 0
    /\ decision = NoDecision
    /\ order = <<>>
    /\ result = NoResult
    /\ run = 0
    /\ firstRun = NoFirstRun
    /\ calls = <<>>
    /\ seen = <<>>
    /\ entryBar = None

\* aligned_data, data_1h_sorted = align_timeframes(data_15m, data_1h)
AlignCall ==
    /\ pc = "align"
    /\ LET r == align_timeframes(data_15m, data_1h)
       IN  /\ aligned_data' = r.aligned_data
           /\ data_1h_sorted' = r.data_1h_sorted
    /\ pc' = "aligned"
    /\ UNCHANGED <<price_history, lookback_window, stop_loss_percentage, simKind, agent,
                   balance, btc_holdings, entry_price, trades, decisions, i, decision,
                   order, result, run, firstRun, calls, seen, entryBar, history_1h,
                   data_15m, data_1h>>
    /\ UNCHANGED mtfRunVars
    /\ UNCHANGED <<gridVars, loaderVars>>

NextAlign == AlignCall

SpecAlign == InitAlign /\ [][NextAlign]_vars

-----------------------------------------------------------------------------
(* MultiTimeframeSimulator: src/simulation/engine/multi_timeframe_simulator.py *)

\* the most 15-minute and 1-hour bars of a simulation, and the most
\* run_simulation calls on one MultiTimeframeSimulator
MaxMtfFast == 5
MaxMtfSlow == 5
MaxMtfRuns == 3

\* closes of the two series, in cents
MtfPriceSet == {600, 1300}

\* the 15-minute bars follow the fourth 1-hour bar; the fifth and later 1-hour
\* bars have fast bars before them
FastTimestamp(k) == 165 + 15 * k
SlowTimestamp(k) == 60 * (k - 1)

MtfFastInputs ==
    UNION {{[k \in 1..n |-> Bar(FastTimestamp(k), p[k])] : p \in [1..n -> MtfPriceSet]} :
           n \in 0..MaxMtfFast}
MtfSlowInputs ==
    {<<>>} \cup {[k \in 1..MaxMtfSlow |-> Bar(SlowTimestamp(k), p[k])] :
                 p \in [1..MaxMtfSlow -> MtfPriceSet]}

LookbackFastSet == {0, 3}
LookbackSlowSet == {0, 3, 4}

\* the keyword arguments of run_simulation the grid drivers pass
MtfParams(rsi_period, rsi_oversold, rsi_overbought, bb_period, bb_num_std_dev, macd_fast, macd_slow, macd_signal) ==
    [rsi_period |-> rsi_period, rsi_oversold |-> rsi_oversold,
     rsi_overbought |-> rsi_overbought, bb_period |-> bb_period,
     bb_num_std_dev |-> bb_num_std_dev, macd_fast |-> macd_fast,
     macd_slow |-> macd_slow, macd_signal |-> macd_signal]

MtfTuples == {MtfParams(2, DefaultOversold, DefaultOverbought, 2, 1, 1, 2, 2),
              MtfParams(2, 60, 40, 3, 1, 1, 2, 2)}

\* lines 196-206: agent = MultiTimeframeAgent(...)
MtfAgent(p) ==
    NewIndicatorAgent("MultiTimeframeAgent", p.rsi_period, p.rsi_oversold,
                      p.rsi_overbought, p.macd_fast, p.macd_slow, p.macd_signal,
                      p.bb_period, p.bb_num_std_dev)

\* the parameters an agent was built from
ParamsOf(ag) ==
    MtfParams(ag.rsi_period, ag.rsi_oversold, ag.rsi_overbought, ag.bb_period,
              ag.bb_num_std_dev, ag.macd_fast, ag.macd_slow, ag.macd_signal)

Closes(bars) == [k \in 1..Len(bars) |-> bars[k].price]

InitMtf ==
    /\ \E fast \in MtfFastInputs, slow \in MtfSlowInputs :
           /\ data_15m = fast
           /\ data_1h = slow
           /\ aligned_data = align_timeframes(fast, slow).aligned_data
           /\ data_1h_sorted = align_timeframes(fast, slow).data_1h_sorted
    /\ lookback_window \in LookbackFastSet
    /\ lookback_window_1h \in LookbackSlowSet
    /\ pc = "new"
    /\ historical_15m = <<>>
    /\ historical_1h_window = <<>>
    /\ finished = <<>>
    /\ GridIdle
    /\ LoaderIdle
    /\ price_history = <<>>
    /\ history_1h = <<>>
    /\ agent = NewAgent("MaAgent", 1, 2, AgentStopLoss, AgentTrailingStop)
    /\ stop_loss_percentage = None
    /\ simKind = "FullPositionSimulator"
    /\ balance = initial_balance
    /\ btc_holdings = initial_btc
    /\ entry_price = None
    /\ trades = <<>>
    /\ decisions = <<>>
    /\ i = 0
    /\ decision = NoDecision
    /\ order = <<>>
    /\ result = NoResult
    /\ run = 0
    /\ firstRun = NoFirstRun
    /\ calls = <<>>
    /\ seen = <<>>
    /\ entryBar = None

\* raise ValueError('Insufficient data: ...')
ValueError == [NoResult EXCEPT !.status = "ValueError"]

\* line 158: len(aligned_data) < lookback_window_15m
TooFewAligned(aligned, lookback) == Len(aligned) < lookback

\* MultiTimeframeSimulator.__init__
MtfConstruct ==
    /\ pc = "new"
    /\ IF TooFewAligned(aligned_data, lookback_window)
       THEN pc' = "raised" /\ result' = ValueError
       ELSE pc' = "idle" /\ result' = NoResult
    /\ UNCHANGED <<price_history, lookback_window, stop_loss_percentage, simKind, agent,
                   balance, btc_holdings, entry_price, trades, decisions, i, decision,
                   order, run, firstRun, calls, seen, entryBar, history_1h>>
    /\ UNCHANGED alignVars
    /\ UNCHANGED mtfRunVars
    /\ UNCHANGED <<gridVars, loaderVars>>

\* lines 195-213: a call of run_simulation builds a new agent and a new
\* FullPositionSimulator and resets it
\* variant of NewSimulatorBalance in which run_simulation goes on with the
\* balance the previous run ended with
CarriedBalance == balance

\* lines 209-210: the balance of the FullPositionSimulator that run_simulation
\* builds and resets for itself
NewSimulatorBalance == initial_balance

MtfRunSimulation ==
    /\ pc \in {"idle", "done"}
    /\ run < MaxMtfRuns
    /\ \E p \in MtfTuples : agent' = MtfAgent(p)
    /\ run' = run + 1
    /\ balance' = NewSimulatorBalance
    /\ btc_holdings' = initial_btc
    /\ trades' = <<>>
    /\ decisions' = <<>>
    /\ entry_price' = None
    /\ i' = lookback_window
    /\ pc' = "loop"
    /\ decision' = NoDecision
    /\ order' = <<>>
    /\ result' = NoResult
    /\ seen' = <<>>
    /\ historical_15m' = <<>>
    /\ historical_1h_window' = <<>>
    /\ UNCHANGED <<price_history, lookback_window, stop_loss_percentage, simKind,
                   firstRun, calls, entryBar, history_1h, lookback_window_1h, finished>>
    /\ UNCHANGED alignVars
    /\ UNCHANGED <<gridVars, loaderVars>>

\* variant of FastHistoryAt whose window ends with the current row
FastHistoryThrough(k) ==
    [j \in 1..lookback_window |-> aligned_data[k - lookback_window + j + 1].bar]

\* line 219: [d[0] for d in self.aligned_data[i-lookback_window_15m:i]]
FastHistoryAt(k) ==
    [j \in 1..lookback_window |-> aligned_data[k - lookback_window + j].bar]

\* line 222: self.data_1h_sorted[:idx_1h]
SlowHistoryUpTo(idx_1h) == SubSeq(data_1h_sorted, 1, Min(idx_1h, Len(data_1h_sorted)))

\* line 223: the last lookback_window_1h bars, or all of a shorter list (a
\* slice [-0:] is the whole list)
SlowWindow(historical_1h) ==
    IF Len(historical_1h) >= lookback_window_1h /\ lookback_window_1h > 0
    THEN LastN(historical_1h, lookback_window_1h)
    ELSE historical_1h

\* lines 215-230: the histories of row i and the agent's decision
MtfDecide ==
    /\ pc = "loop"
    /\ i < Len(aligned_data)
    /\ LET price_15m == aligned_data[i + 1].bar
           idx_1h == aligned_data[i + 1].idx
           h15 == FastHistoryAt(i)
           h1w == SlowWindow(SlowHistoryUpTo(idx_1h))
       IN  /\ historical_15m' = h15
           /\ historical_1h_window' = h1w
           /\ decision' = MultiTimeframeDecide(agent, price_15m.price, Closes(h15),
                                               Closes(h1w))
    /\ seen' = Append(seen, i)
    /\ pc' = "execute"
    /\ UNCHANGED <<price_history, lookback_window, stop_loss_percentage, simKind, agent,
                   balance, btc_holdings, entry_price, trades, decisions, i,
                   order, result, run, firstRun, calls, entryBar, history_1h,
                   lookback_window_1h, finished>>
    /\ UNCHANGED alignVars
    /\ UNCHANGED <<gridVars, loaderVars>>

\* line 233: simulator.execute_trade(decision, price_15m.price)
MtfExecuteTrade ==
    /\ pc = "execute"
    /\ LET r == execute_trade("FullPositionSimulator", balance, btc_holdings,
                              entry_price, decision, aligned_data[i + 1].bar.price,
                              DefaultFeeRate)
       IN  /\ balance' = r.balance
           /\ btc_holdings' = r.btc_holdings
           /\ entry_price' = r.entry_price
           /\ order' = r.order
           /\ trades' = IF r.order = <<>> THEN trades ELSE Append(trades, r.order[1])
           /\ decisions' = IF r.order = <<>> THEN decisions
                           ELSE Append(decisions, decision)
    /\ i' = i + 1
    /\ pc' = "loop"
    /\ UNCHANGED <<price_history, lookback_window, stop_loss_percentage, simKind, agent,
                   decision, result, run, firstRun, calls, seen, entryBar, history_1h>>
    /\ UNCHANGED alignVars
    /\ UNCHANGED mtfRunVars
    /\ UNCHANGED <<gridVars, loaderVars>>

\* lines 241-280: the dict run_simulation returns
MtfMetrics ==
    LET final_price == aligned_data[Len(aligned_data)].bar.price
        final_value == balance + UsdFor(btc_holdings, final_price)
        total_profit == final_value - initial_balance
    IN  [status |-> "ok", final_balance |-> balance, final_btc |-> btc_holdings,
         final_price |-> final_price,
         final_value |-> final_value, total_profit |-> total_profit,
         profit_percentage |-> RoundDiv(total_profit * 1000, initial_balance),
         total_trades |-> Len(trades),
         buy_trades |-> CountAction(trades, "BUY"),
         sell_trades |-> CountAction(trades, "SELL"),
         trades |-> trades,
         parameters |-> ParamsOf(agent)]

\* the end of the loop: the final evaluation, or the IndexError of
\* self.aligned_data[-1] on an empty list
MtfFinish ==
    /\ pc = "loop"
    /\ i >= Len(aligned_data)
    /\ IF Len(aligned_data) = 0
       THEN result' = IndexError /\ pc' = "raised" /\ UNCHANGED finished
       ELSE /\ result' = MtfMetrics
            /\ pc' = "done"
            /\ finished' = Append(finished, [parameters |-> ParamsOf(agent),
                                             result |-> MtfMetrics])
    /\ UNCHANGED <<price_history, lookback_window, stop_loss_percentage, simKind, agent,
                   balance, btc_holdings, entry_price, trades, decisions, i,
                   decision, order, run, firstRun, calls, seen, entryBar, history_1h,
                   lookback_window_1h, historical_15m, historical_1h_window>>
    /\ UNCHANGED alignVars
    /\ UNCHANGED <<gridVars, loaderVars>>

NextMtf ==
    \/ MtfConstruct
    \/ MtfRunSimulation
    \/ MtfDecide
    \/ MtfExecuteTrade
    \/ MtfFinish

SpecMtf == InitMtf /\ [][NextMtf]_vars

-----------------------------------------------------------------------------
(* Grid-search drivers: src/scripts/find_best_window_sizes.py,               *)
(* grid_search_trailing_stop.py, grid_search_rsi_bb.py,                      *)
(* grid_search_rsi_macd_bb.py, grid_search_multi_timeframe.py.               *)
(* A driver enumerates parameter tuples, simulates each one inside           *)
(* try/except, sorts the results and reports.  What one simulation does is   *)
(* the subject of the specifications above; here its outcome is an input:    *)
(* it raises, or it returns a result with some profit_percentage.  A write   *)
(* to the log file succeeds or raises.  Percentages and standard-deviation   *)
(* multiples are integers (percent, tenths).                                 *)

\* the most values on one axis
MaxAxisLen == 2

Drivers == {"find_best_window_sizes", "grid_search_trailing_stop", "grid_search_rsi_bb",
            "grid_search_rsi_macd_bb", "grid_search_multi_timeframe"}

\* min_ratio = 1.5 as a fraction
min_ratio_num == 3
min_ratio_den == 2

\* the least number of bars the MA-cross drivers accept
MinBarsMa == 1000
\* bars a combination needs beyond its lookback
ExtraBars == 100
\* min_lookback = max(long_w + 50, 60)
LookbackMargin == 50
LookbackFloor == 60
\* default of min_lookback and of lookback_window_15m
DefaultMinLookback == 100

RECURSIVE Flatten(_)
Flatten(ss) == IF ss = <<>> THEN <<>> ELSE Head(ss) \o Flatten(Tail(ss))

\* itertools.product(*ax) as a list: the last axis varies fastest
RECURSIVE Product(_)
Product(ax) ==
    IF ax = <<>> THEN << <<>> >>
    ELSE LET rest == Product(Tail(ax))
         IN  Flatten([k \in 1..Len(Head(ax)) |->
                         [j \in 1..Len(rest) |-> <<Head(ax)[k]>> \o rest[j]]])

\* list(range(lo, hi + 1, step))
RangeList(lo, hi, step) ==
    IF hi < lo THEN <<>>
    ELSE [k \in 1..((hi - lo) \div step + 1) |-> lo + (k - 1) * step]

Max3(a, b, c) == Max(a, Max(b, c))

\* variant of RatioOk with a strict comparison
RatioAbove(short, long_w) == long_w * min_ratio_den > min_ratio_num * short

\* long_w / short >= min_ratio
RatioOk(short, long_w) == long_w * min_ratio_den >= min_ratio_num * short

\* min_lookback of the MA-cross drivers
MaLookback(long_w) == Max(long_w + LookbackMargin, LookbackFloor)

\* variant of MaValid that drops a pair whose ratio equals min_ratio
MaValidAboveRatio(t) ==
    /\ t[1] < t[2]
    /\ t[2] * min_ratio_den > min_ratio_num * t[1]
    /\ MaLookback(t[2]) + ExtraBars < n_data

\* the filter of the MA-cross drivers on a tuple that starts with (short, long)
MaValid(t) ==
    /\ t[1] < t[2]
    /\ RatioOk(t[1], t[2])
    /\ MaLookback(t[2]) + ExtraBars < n_data

\* min_lookback_required of grid_search_rsi_bb for (rsi_p, os, ob, bb_p, bb_std)
RsiBbLookback(t) == Max3(t[1] + 1, t[4], DefaultMinLookback)

RsiBbValid(t) == RsiBbLookback(t) + ExtraBars < n_data

\* variant of MacdOrderOk that lets macd_fast = macd_slow pass
MacdOrderLoose(macd_f, macd_s) == ~(macd_f > macd_s)

\* the tuple passes "if macd_f >= macd_s: continue"
MacdOrderOk(macd_f, macd_s) == ~(macd_f >= macd_s)

\* min_lookback_required of grid_search_rsi_macd_bb for
\* (rsi_p, os, ob, macd_f, macd_s, macd_sig, bb_p, bb_std, stop_loss, trailing)
RsiMacdBbLookback(t) == Max(Max3(t[5] + t[6], t[1] + 1, t[7]), DefaultMinLookback)

RsiMacdBbValid(t) ==
    /\ MacdOrderOk(t[4], t[5])
    /\ RsiMacdBbLookback(t) + ExtraBars < n_data

\* min_lookback_required_15m of grid_search_multi_timeframe for
\* (rsi_p, os, ob, bb_p, bb_std, macd_f, macd_s, macd_sig)
MtfGridLookback(t) == Max3(t[1] + 1, t[4], DefaultMinLookback)

MtfGridValid(t) ==
    /\ MacdOrderOk(t[6], t[7])
    /\ MtfGridLookback(t) + ExtraBars < n_data

Combo(t, lookback) == [params |-> t, lookback |-> lookback]

\* the loops that fill valid_combinations
Enumerate ==
    CASE driver = "find_best_window_sizes" ->
             LET ok == SelectSeq(Product(axes), MaValid)
             IN  [k \in 1..Len(ok) |-> Combo(ok[k], MaLookback(ok[k][2]))]
      [] driver = "grid_search_trailing_stop" ->
             LET ok == SelectSeq(Product(<<axes[1], axes[2]>>), MaValid)
                 inner == Product(<<axes[3], axes[4]>>)
             IN  Flatten([k \in 1..Len(ok) |->
                             [j \in 1..Len(inner) |->
                                 Combo(ok[k] \o inner[j], MaLookback(ok[k][2]))]])
      [] driver = "grid_search_rsi_bb" ->
             LET ok == SelectSeq(Product(axes), RsiBbValid)
             IN  [k \in 1..Len(ok) |-> Combo(ok[k], RsiBbLookback(ok[k]))]
      [] driver = "grid_search_rsi_macd_bb" ->
             LET ok == SelectSeq(Product(axes), RsiMacdBbValid)
             IN  [k \in 1..Len(ok) |-> Combo(ok[k], RsiMacdBbLookback(ok[k]))]
      [] driver = "grid_search_multi_timeframe" ->
             LET ok == SelectSeq(Product(axes), MtfGridValid)
             IN  [k \in 1..Len(ok) |-> Combo(ok[k], DefaultMinLookback)]

\* the data check at the head of each driver
TooLittleData ==
    IF driver \in {"find_best_window_sizes", "grid_search_trailing_stop"}
    THEN n_data < MinBarsMa
    ELSE n_data < DefaultMinLookback + ExtraBars

\* the drivers that can write a log file
HasLog == driver \in {"grid_search_rsi_bb", "grid_search_multi_timeframe"}

\* the drivers whose summary divides by the price change without a guard
DividesByPriceChange == driver \in {"grid_search_trailing_stop", "grid_search_rsi_macd_bb"}

\* the result dict of one tuple: its parameters and its profit, in 1/10 percent
GridResult(c, profit) == [params |-> c.params, profit_percentage |-> profit]

\* profits a simulation may return
ProfitSet == {0, 50}

\* variant of InsertByProfit that puts a result before the results of equal profit
InsertByProfitFirst(s, r) ==
    LET k == Cardinality({j \in 1..Len(s) : s[j].profit_percentage > r.profit_percentage})
    IN  SubSeq(s, 1, k) \o <<r>> \o SubSeq(s, k + 1, Len(s))

\* one step of the stable sort: r goes behind every result of at least its profit
InsertByProfit(s, r) ==
    LET k == Cardinality({j \in 1..Len(s) : s[j].profit_percentage >= r.profit_percentage})
    IN  SubSeq(s, 1, k) \o <<r>> \o SubSeq(s, k + 1, Len(s))

\* results.sort(key=lambda x: x['profit_percentage'], reverse=True)
RECURSIVE SortedByProfit(_)
SortedByProfit(rs) ==
    IF rs = <<>> THEN <<>>
    ELSE InsertByProfit(SortedByProfit(SubSeq(rs, 1, Len(rs) - 1)), rs[Len(rs)])

\* axis lists: up to MaxAxisLen distinct values of a pool, in any order
AxisLists(pool) ==
    {a \in UNION {[1..n -> pool] : n \in 1..MaxAxisLen} :
        \A j, k \in 1..Len(a) : j # k => a[j] # a[k]}

\* (short_window_range, short_window_step) and (long_window_range, long_window_step)
ShortRanges == {<<5, 5, 5>>, <<5, 10, 5>>, <<10, 10, 5>>}
LongRanges == {<<5, 5, 10>>, <<5, 15, 10>>, <<15, 15, 10>>, <<15, 900, 885>>, <<900, 900, 10>>,
               <<5, 25, 10>>}

GridInputs ==
    {[driver |-> "find_best_window_sizes",
      axes |-> <<RangeList(sr[1], sr[2], sr[3]), RangeList(lr[1], lr[2], lr[3])>>,
      n_data |-> n, log_file |-> FALSE] :
         sr \in ShortRanges,
         lr \in {r \in LongRanges : Len(RangeList(r[1], r[2], r[3])) <= MaxAxisLen},
         n \in {999, 1000, 1051}}
    \cup {[driver |-> "grid_search_trailing_stop",
           axes |-> <<sw, lw, <<5>>, ts>>, n_data |-> n, log_file |-> FALSE] :
              sw \in AxisLists({5, 10}), lw \in AxisLists({5, 7, 15, 900}),
              ts \in {<<3>>, <<5, 3>>}, n \in {999, 1000, 1051}}
    \cup {[driver |-> "grid_search_rsi_bb",
           axes |-> <<rp, <<30>>, <<70>>, bp, <<20>> >>, n_data |-> n, log_file |-> lf] :
              rp \in AxisLists({14, 120}), bp \in AxisLists({20, 150}),
              n \in {199, 201, 260}, lf \in BOOLEAN}
    \cup {[driver |-> "grid_search_rsi_macd_bb",
           axes |-> <<<<14>>, <<30>>, <<70>>, mf, ms, <<9>>, bp, <<20>>, sl, <<None>> >>,
           n_data |-> n, log_file |-> FALSE] :
              mf \in AxisLists({12, 26}), ms \in AxisLists({12, 26}),
              bp \in AxisLists({20, 150}), sl \in {<<None>>, <<5>>},
              n \in {199, 201, 260}}
    \cup {[driver |-> "grid_search_multi_timeframe",
           axes |-> <<<<10>>, <<35>>, <<80>>, bp, <<25>>, mf, ms, <<11>> >>,
           n_data |-> n, log_file |-> lf] :
              bp \in AxisLists({22, 150}), mf \in AxisLists({12, 20}),
              ms \in AxisLists({12, 20}), n \in {199, 201, 260}, lf \in BOOLEAN}

\* no simulator of the specifications above is in use
SimIdle ==
    /\ price_history = <<>>
    /\ lookback_window = 0
    /\ stop_loss_percentage = None
    /\ simKind = "FullPositionSimulator"
    /\ agent = NewAgent("MaAgent", 1, 2, AgentStopLoss, AgentTrailingStop)
    /\ balance = initial_balance
    /\ btc_holdings = initial_btc
    /\ entry_price = None
    /\ trades = <<>>
    /\ decisions = <<>>
    /\ i = 0
    /\ decision = NoDecision
    /\ order = <<>>
    /\ result = NoResult
    /\ run = 0
    /\ firstRun = NoFirstRun
    /\ calls = <<>>
    /\ seen = <<>>
    /\ entryBar = None
    /\ history_1h = <<>>
    /\ data_15m = <<>>
    /\ data_1h = <<>>
    /\ aligned_data = <<>>
    /\ data_1h_sorted = <<>>
    /\ lookback_window_1h = 0
    /\ historical_15m = <<>>
    /\ historical_1h_window = <<>>
    /\ finished = <<>>

InitGrid ==
    /\ \E g \in GridInputs :
           /\ driver = g.driver
           /\ axes = g.axes
           /\ n_data = g.n_data
           /\ log_file = g.log_file
    /\ flat_period \in BOOLEAN
    /\ valid_combinations = <<>>
    /\ combo_idx = 0
    /\ results = <<>>
    /\ best_result = <<>>
    /\ summary = <<>>
    /\ simulated = <<>>
    /\ raisedFor = <<>>
    /\ logFailures = 0
    /\ pc = "start"
    /\ SimIdle
    /\ LoaderIdle

gridInputVars == <<driver, axes, n_data, log_file, flat_period>>

\* the head of the driver: the data check and the enumeration
GridStart ==
    /\ pc = "start"
    /\ IF TooLittleData
       THEN pc' = "returned None" /\ UNCHANGED valid_combinations
       ELSE pc' = "initial log" /\ valid_combinations' = Enumerate
    /\ UNCHANGED <<combo_idx, results, best_result, summary, simulated, raisedFor,
                   logFailures>>
    /\ UNCHANGED <<gridInputVars, loaderVars>>
    /\ UNCHANGED <<simVars, history_1h, alignVars, mtfRunVars>>

\* "if log_path: write_log(...)" ahead of the loop, outside every try
GridInitialLog ==
    /\ pc = "initial log"
    /\ \/ pc' = "loop" /\ UNCHANGED logFailures
       \/ log_file /\ pc' = "raised" /\ logFailures' = logFailures + 1
    /\ UNCHANGED <<valid_combinations, combo_idx, results, best_result, summary,
                   simulated, raisedFor>>
    /\ UNCHANGED <<gridInputVars, loaderVars>>
    /\ UNCHANGED <<simVars, history_1h, alignVars, mtfRunVars>>

\* best_result after a result: replaced only by a strictly greater profit;
\* best_profit_pct starts at -inf, and a comparison with nan is False
BestAfter(r) ==
    IF /\ r.profit_percentage # NaN
       /\ (best_result = <<>> \/ r.profit_percentage > best_result[1].profit_percentage)
    THEN <<r>> ELSE best_result

\* one pass of the loop up to the log write, if one follows: the simulation
\* raises and the handler prints, or it returns and the result is recorded
GridSimulate ==
    /\ pc = "loop"
    /\ combo_idx < Len(valid_combinations)
    /\ LET c == valid_combinations[combo_idx + 1]
       IN  /\ simulated' = Append(simulated, c.params)
           /\ \/ /\ raisedFor' = Append(raisedFor, c.params)
                 /\ UNCHANGED <<results, best_result>>
                 /\ IF driver = "grid_search_rsi_bb" /\ log_file
                    THEN pc' = "handler log" /\ UNCHANGED combo_idx
                    ELSE pc' = "loop" /\ combo_idx' = combo_idx + 1
              \/ \E profit \in ProfitSet, due \in BOOLEAN :
                    /\ results' = Append(results, GridResult(c, profit))
                    /\ best_result' = BestAfter(GridResult(c, profit))
                    /\ UNCHANGED raisedFor
                    /\ IF log_file /\ (driver = "grid_search_multi_timeframe" \/ due)
                       THEN pc' = "progress log" /\ UNCHANGED combo_idx
                       ELSE pc' = "loop" /\ combo_idx' = combo_idx + 1
    /\ UNCHANGED <<valid_combinations, summary, logFailures>>
    /\ UNCHANGED <<gridInputVars, loaderVars>>
    /\ UNCHANGED <<simVars, history_1h, alignVars, mtfRunVars>>

\* write_log(progress) inside the try: a failure is caught by "except Exception"
GridProgressLog ==
    /\ pc = "progress log"
    /\ \/ pc' = "loop" /\ combo_idx' = combo_idx + 1 /\ UNCHANGED logFailures
       \/ /\ logFailures' = logFailures + 1
          /\ IF driver = "grid_search_rsi_bb"
             THEN pc' = "handler log" /\ UNCHANGED combo_idx
             ELSE pc' = "loop" /\ combo_idx' = combo_idx + 1
    /\ UNCHANGED <<valid_combinations, results, best_result, summary, simulated,
                   raisedFor>>
    /\ UNCHANGED <<gridInputVars, loaderVars>>
    /\ UNCHANGED <<simVars, history_1h, alignVars, mtfRunVars>>

\* grid_search_rsi_bb: write_log(error_msg) inside the except block
GridHandlerLog ==
    /\ pc = "handler log"
    /\ \/ pc' = "loop" /\ combo_idx' = combo_idx + 1 /\ UNCHANGED logFailures
       \/ pc' = "raised" /\ logFailures' = logFailures + 1 /\ UNCHANGED combo_idx
    /\ UNCHANGED <<valid_combinations, results, best_result, summary, simulated,
                   raisedFor>>
    /\ UNCHANGED <<gridInputVars, loaderVars>>
    /\ UNCHANGED <<simVars, history_1h, alignVars, mtfRunVars>>

\* what the driver prints and saves about the whole run
Summary ==
    IF driver = "grid_search_multi_timeframe"
    THEN [total_combinations |-> Len(valid_combinations), total_tests |-> Len(results)]
    ELSE [total_tests |-> Len(results)]

\* after the loop: the sort, the summary and the comparison with the price
\* change, which divides by it in two drivers
GridFinish ==
    /\ pc = "loop"
    /\ combo_idx >= Len(valid_combinations)
    /\ results' = SortedByProfit(results)
    /\ summary' = Summary
    /\ pc' = IF DividesByPriceChange /\ best_result # <<>> /\ flat_period
             THEN "raised"
             ELSE IF HasLog /\ log_file
             THEN "final log"
             ELSE "returned"
    /\ UNCHANGED <<valid_combinations, combo_idx, best_result, simulated, raisedFor,
                   logFailures>>
    /\ UNCHANGED <<gridInputVars, loaderVars>>
    /\ UNCHANGED <<simVars, history_1h, alignVars, mtfRunVars>>

\* write_log("Grid search completed ...") before the return, outside every try
GridFinalLog ==
    /\ pc = "final log"
    /\ \/ pc' = "returned" /\ UNCHANGED logFailures
       \/ pc' = "raised" /\ logFailures' = logFailures + 1
    /\ UNCHANGED <<valid_combinations, combo_idx, results, best_result, summary,
                   simulated, raisedFor>>
    /\ UNCHANGED <<gridInputVars, loaderVars>>
    /\ UNCHANGED <<simVars, history_1h, alignVars, mtfRunVars>>

NextGrid ==
    \/ GridStart
    \/ GridInitialLog
    \/ GridSimulate
    \/ GridProgressLog
    \/ GridHandlerLog
    \/ GridFinish
    \/ GridFinalLog

SpecGrid == InitGrid /\ [][NextGrid]_vars

\* the driver has passed its data check and enumerated
Enumerated == pc \notin {"start", "returned None"}

\* the loop over valid_combinations has ended
LoopDone == Enumerated /\ pc # "initial log" /\ combo_idx >= Len(valid_combinations)

MaDriver == driver \in {"find_best_window_sizes", "grid_search_trailing_stop"}

-----------------------------------------------------------------------------
(* execute_trade called directly on a simulator, with any fee_rate:          *)
(* src/simulation/engine/simulator.py, multi_timeframe_simulator.py          *)

\* balances in cents, holdings in 1/1000 BTC, prices in cents, fee rates in 1/1000
FillBalances == {0, 5000, 100000, 100100}
FillHoldings == {0, 1, 1000, 10571}
FillPrices == {9450, 10000, 12000}
FeeRates == {0, 1, 10}
FillActions == {"BUY", "SELL", "HOLD"}

\* a simulator with some balance and position, and the arguments of one call
InitFill ==
    /\ simKind \in SimKinds
    /\ balance \in FillBalances
    /\ btc_holdings \in FillHoldings
    /\ entry_price \in (IF btc_holdings > 0 /\ simKind # "FullPositionSimulatorNoEntry"
                        THEN FillPrices ELSE {None})
    /\ price_history \in {<<p>> : p \in FillPrices}
    /\ \E a \in FillActions : decision = Decision(a, 500, price_history[1], "signal")
    /\ call_fee_rate \in FeeRates
    /\ pc = "call"
    /\ lookback_window = 0
    /\ stop_loss_percentage = None
    /\ agent = NewAgent("MaAgent", 1, 2, AgentStopLoss, AgentTrailingStop)
    /\ trades = <<>>
    /\ decisions = <<>>
    /\ i = 0
    /\ order = <<>>
    /\ result = NoResult
    /\ run = 0
    /\ firstRun = NoFirstRun
    /\ calls = <<>>
    /\ seen = <<>>
    /\ entryBar = None
    /\ history_1h = <<>>
    /\ data_15m = <<>>
    /\ data_1h = <<>>
    /\ aligned_data = <<>>
    /\ data_1h_sorted = <<>>
    /\ lookback_window_1h = 0
    /\ historical_15m = <<>>
    /\ historical_1h_window = <<>>
    /\ finished = <<>>
    /\ GridIdle
    /\ csv_rows = <<>>
    /\ row_idx = 0
    /\ price_data = <<>>
    /\ experiments = <<>>

\* order = simulator.execute_trade(decision, current_price, fee_rate)
FillCall ==
    /\ pc = "call"
    /\ LET r == execute_trade(simKind, balance, btc_holdings, entry_price, decision,
                              price_history[1], call_fee_rate)
       IN  /\ balance' = r.balance
           /\ btc_holdings' = r.btc_holdings
           /\ entry_price' = r.entry_price
           /\ order' = r.order
           /\ trades' = IF r.order = <<>> THEN trades ELSE Append(trades, r.order[1])
           /\ decisions' = IF r.order = <<>> THEN decisions
                           ELSE Append(decisions, decision)
    /\ calls' = Append(calls, "execute_trade")
    /\ pc' = "returned"
    /\ UNCHANGED <<price_history, lookback_window, stop_loss_percentage, simKind, agent,
                   i, decision, result, run, firstRun, seen, entryBar>>
    /\ UNCHANGED mtfVars

NextFill == FillCall

SpecFill == InitFill /\ [][NextFill]_vars

-----------------------------------------------------------------------------
(* load_price_data_from_csv: src/scripts/run_simulation.py,                  *)
(* grid_search_rsi_macd_bb.py, grid_search_rsi_macd_bb_l18.py                *)

\* the most rows of a file
MaxRows == 3

\* the cells of the rows: ISO, "%Y-%m-%d %H:%M:%S" with and without zero
\* padding, and another date format; numbers, not-a-number and a word
TimestampTexts == {"2024-01-01T00:00:00", "2024-01-01 01:00:00", "2024-1-1 2:00:00",
                   "01/02/2024 03:00:00"}
PriceTexts == {" 100.00", "0", "-5.5", "nan", "abc"}
CsvRows == {[timestamp |-> t, price |-> p] : t \in TimestampTexts, p \in PriceTexts}

\* text.strip()
strip(text) == IF text = " 100.00" THEN "100.00" ELSE text

\* text.replace(' ', 'T')
ReplaceSpace(text) ==
    CASE text = "2024-01-01 01:00:00" -> "2024-01-01T01:00:00"
      [] text = "2024-1-1 2:00:00" -> "2024-1-1T2:00:00"
      [] text = "01/02/2024 03:00:00" -> "01/02/2024T03:00:00"
      [] OTHER -> text

\* datetime.fromisoformat(text), in minutes after 2024-01-01 00:00
fromisoformat(text) ==
    CASE text = "2024-01-01T00:00:00" -> 0
      [] text = "2024-01-01T01:00:00" -> 60
      [] OTHER -> Raised

\* datetime.strptime(text, "%Y-%m-%d %H:%M:%S"), in minutes after 2024-01-01 00:00
strptime(text) ==
    CASE text = "2024-01-01 01:00:00" -> 60
      [] text = "2024-1-1 2:00:00" -> 120
      [] OTHER -> Raised

\* the two attempts on the timestamp cell
ParseTimestamp(cell) ==
    LET timestamp_str == strip(cell)
        iso == fromisoformat(ReplaceSpace(timestamp_str))
    IN  IF iso # Raised THEN iso ELSE strptime(timestamp_str)

\* float(text), in cents
float(text) ==
    CASE text = "100.00" -> 10000
      [] text = "0" -> 0
      [] text = "-5.5" -> -550
      [] text = "nan" -> NaN
      [] OTHER -> Raised

\* one pass of "for row in reader": both cells converted and the bar appended,
\* or the row skipped by a continue
AfterRow(data, row) ==
    LET timestamp == ParseTimestamp(row.timestamp)
        price == float(strip(row.price))
    IN  IF timestamp = Raised \/ price = Raised
        THEN data
        ELSE Append(data, Bar(timestamp, price))

\* the whole loop
RECURSIVE LoadRows(_)
LoadRows(rows) ==
    IF rows = <<>> THEN <<>>
    ELSE AfterRow(LoadRows(SubSeq(rows, 1, Len(rows) - 1)), rows[Len(rows)])

InitLoad ==
    /\ csv_rows \in UNION {[1..n -> CsvRows] : n \in 0..MaxRows}
    /\ row_idx = 0
    /\ price_data = <<>>
    /\ experiments = <<>>
    /\ call_fee_rate = 0
    /\ pc = "reading"
    /\ SimIdle
    /\ GridIdle

LoadRow ==
    /\ pc = "reading"
    /\ row_idx < Len(csv_rows)
    /\ price_data' = AfterRow(price_data, csv_rows[row_idx + 1])
    /\ row_idx' = row_idx + 1
    /\ UNCHANGED <<pc, csv_rows, experiments, call_fee_rate, gridVars>>
    /\ UNCHANGED <<simVars, history_1h, alignVars, mtfRunVars>>

\* return price_data
LoadReturn ==
    /\ pc = "reading"
    /\ row_idx = Len(csv_rows)
    /\ pc' = "loaded"
    /\ UNCHANGED <<loaderVars, gridVars>>
    /\ UNCHANGED <<simVars, history_1h, alignVars, mtfRunVars>>

NextLoad ==
    \/ LoadRow
    \/ LoadReturn

SpecLoad == InitLoad /\ [][NextLoad]_vars

-----------------------------------------------------------------------------
(* run_l18_grid_search: src/scripts/grid_search_rsi_macd_bb_l18.py            *)

\* the most entries of a plan
MaxPlan == 3

\* (rsi_period, rsi_oversold, rsi_overbought, macd_fast, macd_slow,
\* macd_signal, bb_period, bb_std_dev, stop_loss) of the entries; the last has
\* macd_fast above macd_slow
PlanTuples == {<<14, 30, 70, 12, 26, 9, 20, 2, 5>>, <<14, 30, 70, 12, 26, 9, 150, 2, 5>>,
               <<14, 30, 70, 26, 12, 9, 20, 2, 5>>}
PlanEntries == {[experiment |-> n, params |-> t] : n \in {1, 2}, t \in PlanTuples}
Plans == UNION {[1..n -> PlanEntries] : n \in 0..MaxPlan}

\* files: no row, no row that converts, two bars, and two bars of which the
\* last has the price nan
L18Files ==
    {<<>>,
     <<[timestamp |-> "01/02/2024 03:00:00", price |-> " 100.00"]>>,
     <<[timestamp |-> "2024-01-01T00:00:00", price |-> " 100.00"],
       [timestamp |-> "2024-01-01 01:00:00", price |-> " 100.00"]>>,
     <<[timestamp |-> "2024-01-01T00:00:00", price |-> " 100.00"],
       [timestamp |-> "2024-01-01 01:00:00", price |-> "nan"]>>}

InitL18 ==
    /\ csv_rows \in L18Files
    /\ experiments \in Plans
    /\ driver = "run_l18_grid_search"
    /\ axes = <<>>
    /\ n_data = 0
    /\ log_file = FALSE
    /\ flat_period = FALSE
    /\ valid_combinations = <<>>
    /\ combo_idx = 0
    /\ results = <<>>
    /\ best_result = <<>>
    /\ summary = <<>>
    /\ simulated = <<>>
    /\ raisedFor = <<>>
    /\ logFailures = 0
    /\ row_idx = 0
    /\ price_data = <<>>
    /\ call_fee_rate = 0
    /\ pc = "start"
    /\ SimIdle

\* lines 171-182: the data is loaded and its first and last bar printed, which
\* raises IndexError on an empty list; then the plan is read
L18Load ==
    /\ pc = "start"
    /\ price_data' = LoadRows(csv_rows)
    /\ row_idx' = Len(csv_rows)
    /\ n_data' = Len(price_data')
    /\ pc' = IF price_data' = <<>> THEN "raised" ELSE "loop"
    /\ UNCHANGED <<driver, axes, log_file, flat_period, valid_combinations, combo_idx,
                   results, best_result, summary, simulated, raisedFor, logFailures>>
    /\ UNCHANGED <<csv_rows, experiments, call_fee_rate>>
    /\ UNCHANGED <<simVars, history_1h, alignVars, mtfRunVars>>

\* the profits a simulation of the data may return: final_value is
\* balance + btc_holdings * final price, nan when the final price is nan
ProfitsOn(data) == IF data[Len(data)].price = NaN THEN {NaN} ELSE ProfitSet

\* variant of L18Result that numbers the result by the position of its entry
L18ResultByPosition(exp, idx, profit) ==
    [params |-> exp.params, lookback_window |-> RsiMacdBbLookback(exp.params),
     profit_percentage |-> profit, experiment_number |-> idx]

\* lines 194-216: the result of the entry exp, taken as the idx-th of the plan
L18Result(exp, idx, profit) ==
    [params |-> exp.params, lookback_window |-> RsiMacdBbLookback(exp.params),
     profit_percentage |-> profit, experiment_number |-> exp.experiment]

\* lines 190-228: one pass of the loop: the simulation raises and the handler
\* prints, or it returns and the result is recorded
L18Simulate ==
    /\ pc = "loop"
    /\ combo_idx < Len(experiments)
    /\ LET exp == experiments[combo_idx + 1]
       IN  /\ simulated' = Append(simulated, exp.params)
           /\ \/ /\ raisedFor' = Append(raisedFor, exp.params)
                 /\ UNCHANGED <<results, best_result>>
              \/ \E profit \in ProfitsOn(price_data) :
                    /\ results' = Append(results, L18Result(exp, combo_idx + 1, profit))
                    /\ best_result' = BestAfter(L18Result(exp, combo_idx + 1, profit))
                    /\ UNCHANGED raisedFor
    /\ combo_idx' = combo_idx + 1
    /\ UNCHANGED <<pc, valid_combinations, summary, logFailures>>
    /\ UNCHANGED <<gridInputVars, loaderVars>>
    /\ UNCHANGED <<simVars, history_1h, alignVars, mtfRunVars>>

\* lines 230-285: the sort, the tables and the return
L18Finish ==
    /\ pc = "loop"
    /\ combo_idx >= Len(experiments)
    /\ results' = SortedByProfit(results)
    /\ summary' = [total_tests |-> Len(results)]
    /\ pc' = "returned"
    /\ UNCHANGED <<valid_combinations, combo_idx, best_result, simulated, raisedFor,
                   logFailures>>
    /\ UNCHANGED <<gridInputVars, loaderVars>>
    /\ UNCHANGED <<simVars, history_1h, alignVars, mtfRunVars>>

NextL18 ==
    \/ L18Load
    \/ L18Simulate
    \/ L18Finish

\* the driver is one sequential procedure: it goes on until it returns or raises
SpecL18 == InitL18 /\ [][NextL18]_vars /\ WF_vars(NextL18)

-----------------------------------------------------------------------------
(* Properties                                                               *)

LastCall == IF calls = <<>> THEN "none" ELSE calls[Len(calls)]

\* the state right after execute_trade returned an order for action a
AfterExecuted(a) ==
    /\ LastCall = "execute_trade"
    /\ order # <<>>
    /\ order[1].action = a

\* the state right after the simulator's forced stop-loss sale
AfterForced == LastCall = "stop_loss_sale"

\* the state right after execute_trade returned None for a BUY or SELL decision
AfterSuppressed ==
    /\ LastCall = "execute_trade"
    /\ order = <<>>
    /\ decision.action \in {"BUY", "SELL"}

HasAction(log, a) == \E k \in 1..Len(log) : log[k].action = a

\* C1: after every bar balance >= 0 and btc_holdings >= 0, in the fractional
\* fill model, the full-position fill model and the forced stop-loss sale.
InvC1 == balance >= 0 /\ btc_holdings >= 0

\* a fractional run that bought, sold a tenth and was then stopped out
WitC1 ==
    /\ simKind = "TradingSimulator"
    /\ AfterForced
    /\ Len(trades) >= 3
    /\ HasAction(SubSeq(trades, 1, Len(trades) - 1), "SELL")
    /\ balance > 0

\* C2: right after every completed fill, entry_price is None iff btc_holdings = 0,
\* for the fractional simulator and every FullPositionSimulator variant.
ClaimC2 ==
    (AfterExecuted("BUY") \/ AfterExecuted("SELL") \/ AfterForced)
        => ((entry_price = None) <=> (btc_holdings = 0))

\* C3: in full-position mode balance = 0 right after an executed BUY and
\* btc_holdings = 0 right after an executed SELL or a forced stop-loss sale.
InvC3 ==
    FullMode(simKind) =>
        /\ AfterExecuted("BUY") => balance = 0
        /\ (AfterExecuted("SELL") \/ AfterForced) => btc_holdings = 0

\* a full-position run right after its second BUY, the first position sold
WitC3 ==
    /\ simKind = "FullPositionSimulator"
    /\ AfterExecuted("BUY")
    /\ Len(trades) = 3
    /\ trades[2].action = "SELL"
    /\ btc_holdings > 0

\* the fill of the pending decision is refused: BUY without funds (ten percent
\* of the balance plus fee exceeds it; in full-position mode no balance), or
\* SELL with no holdings
FillRefused ==
    /\ pc = "execute"
    /\ \/ /\ decision.action = "BUY"
          /\ IF FullMode(simKind) THEN balance <= 0
             ELSE Tenth(balance) + Fee(Tenth(balance), DefaultFeeRate) > balance
       \/ /\ decision.action = "SELL"
          /\ btc_holdings = 0

StopLossDue ==
    /\ pc = "loop"
    /\ i < Len(price_history)
    /\ stop_loss_percentage # None
    /\ entry_price # None
    /\ btc_holdings > 0
    /\ (price_history[i + 1] - entry_price) * 100 <= -(stop_loss_percentage * entry_price)

\* C5: on a bar where the simulator holds a position and the loss from
\* entry_price reaches stop_loss_pct, the whole position is sold at the bar's
\* price with the fee deducted, holdings become 0, entry_price None, exactly one
\* 'Stop Loss triggered' decision and one SELL order are appended, and
\* agent.decide is not called for that bar (the agent is untouched and the loop
\* moves to the next bar), in both fill modes.
ThmC5 ==
    [][StopLossDue =>
          LET price == price_history[i + 1]
              gross == (2 * btc_holdings * price + UnitsPerBtc) \div (2 * UnitsPerBtc)
              fee == (2 * gross + 1000) \div 2000
          IN  /\ btc_holdings' = 0
              /\ entry_price' = None
              /\ balance' = balance + gross - fee
              /\ trades' = Append(trades, Order("SELL", btc_holdings, price))
              /\ decisions' = Append(decisions,
                                     Decision("SELL", 1000, price, "Stop Loss triggered"))
              /\ agent' = agent
              /\ decision' = decision
              /\ calls' = <<"stop_loss_sale">>
              /\ i' = i + 1
              /\ pc' = "loop"]_vars

\* a fractional position bought in two fills was just stopped out
WitC5 ==
    /\ simKind = "TradingSimulator"
    /\ AfterForced
    /\ Len(trades) >= 3
    /\ trades[Len(trades)].amount > trades[Len(trades) - 1].amount
    /\ btc_holdings = 0
    /\ entry_price = None

\* C6: on a bar without forced sale, update_position is called before
\* agent.decide when the agent has that method.
ClaimC6 ==
    HasUpdatePosition(agent) =>
        \A k \in 1..Len(calls) :
            calls[k] = "decide" => \E j \in 1..(k - 1) : calls[j] = "update_position"

\* C7: a second run_simulation with the same agent object, bars, lookback and
\* stop_loss_pct returns the same metrics and the same ordered trade log.
ClaimC7 ==
    (run = 2 /\ pc = "done") =>
        /\ result = firstRun.result
        /\ trades = firstRun.trades

\* C8: run_simulation never returns metrics when len(bars) < lookback + 1.
ClaimC8 ==
    (pc = "done" /\ Len(price_history) < lookback_window + 1) => result.status # "ok"

\* the crossover signal of the closes ending at bar i, the current bar included
CrossInclusive(short, long) ==
    LET closes == SubSeq(price_history, 1, i + 1)
        s == Sum(LastN(closes, short)) * long
        l == Sum(LastN(closes, long)) * short
    IN  IF s > l THEN "BUY" ELSE IF s < l THEN "SELL" ELSE "HOLD"

\* C9: the MA-cross decision at bar i is the crossover of the means of the last
\* short and long closes ending at bar i (current bar included); on scenario 1
\* the only trade is a BUY at 102 for 1000/102 BTC.
ClaimC9 ==
    /\ (/\ pc \in {"update", "execute"}
        /\ decision.reason \in {"Short MA > Long MA", "Short MA < Long MA",
                                "MA crossover neutral"})
           => decision.action = CrossInclusive(agent.short_window, agent.long_window)
    /\ (price_history = Scenario1Bars /\ pc = "done")
           => trades = <<Order("BUY", BtcFor(initial_balance, 10200), 10200)>>

\* the highest close from the bar that opened the position up to bar k
MaxSinceEntry(k) == SeqMax(SubSeq(price_history, entryBar + 1, k + 1))

\* C10: while a trailing-stop overlay holds a position its highest_price is the
\* maximum price since entry, and decide returns a forced SELL (confidence 1.0)
\* on a bar whose price has fallen by trailing_pct from that maximum.
ClaimC10 ==
    (agent.kind = "MaAgentWithTrailingStop" /\ entryBar # None /\ agent.position_btc > 0) =>
        /\ (pc = "execute" /\ agent.entry_price # None)
               => agent.highest_price = MaxSinceEntry(i)
        /\ (/\ pc = "update"
            /\ LossTriggered(price_history[i + 1], MaxSinceEntry(i),
                             agent.trailing_stop_percentage))
               => /\ decision.action = "SELL"
                  /\ decision.confidence = 1000
                  /\ decision.reason \in {"Trailing Stop triggered", "Stop Loss triggered"}

\* the second half of C10 alone
ClaimC10Sell ==
    (/\ agent.kind = "MaAgentWithTrailingStop"
     /\ entryBar # None
     /\ agent.position_btc > 0
     /\ pc = "update"
     /\ LossTriggered(price_history[i + 1], MaxSinceEntry(i),
                      agent.trailing_stop_percentage))
        => (decision.action = "SELL" /\ decision.confidence = 1000)

\* decide is about to be called on the agent for bar i
DecideDue == pc = "loop" /\ i < Len(price_history) /\ ~SimStopLoss

\* C11: while run_simulation drives a trailing-stop overlay, once the agent's
\* calls of a bar are made: an open position has highest_price >= entry_price,
\* and a flat agent has entry_price = None, highest_price = None and size 0.
ClaimC11 ==
    (agent.kind = "MaAgentWithTrailingStop" /\ pc # "update") =>
        IF agent.entry_price # None /\ agent.position_btc > 0
        THEN agent.highest_price # None /\ agent.highest_price >= agent.entry_price
        ELSE /\ agent.entry_price = None
             /\ agent.highest_price = None
             /\ agent.position_btc = 0

\* the stop-loss condition of an overlay agent at bar i, from its attributes
OverlayStopLossDue ==
    /\ agent.entry_price # None
    /\ agent.position_btc > 0
    /\ (price_history[i + 1] - agent.entry_price) * 100
           <= -(agent.stop_loss_percentage * agent.entry_price)

\* C12: decide of a stop-loss overlay returns SELL with confidence 1.0 and
\* clears its entry_price when it holds a position whose loss from entry_price
\* reaches stop_loss_pct, whatever the delegated strategy would decide; in
\* every other case it returns exactly the delegated strategy's decision.
ThmC12 ==
    [][(DecideDue /\ agent.kind = "MaAgentWithStopLoss") =>
          IF OverlayStopLossDue
          THEN /\ decision' = Decision("SELL", 1000, price_history[i + 1],
                                       "Stop Loss triggered")
               /\ agent' = [agent EXCEPT !.entry_price = None]
          ELSE /\ decision' = MaDecide(agent, price_history[i + 1], HistoryAt(i))
               /\ agent' = agent]_vars

\* a stop-loss overlay has just forced a SELL on a bar for which the
\* moving-average strategy alone does not return SELL
WitC12 ==
    /\ agent.kind = "MaAgentWithStopLoss"
    /\ pc = "update"
    /\ decision = Decision("SELL", 1000, price_history[i + 1], "Stop Loss triggered")
    /\ agent.entry_price = None
    /\ agent.position_btc > 0
    /\ MaDecide(agent, price_history[i + 1], HistoryAt(i)).action # "SELL"

\* the highest price a trailing-stop overlay compares against at bar i
HighAt == IF agent.highest_price = None THEN price_history[i + 1]
          ELSE Max(agent.highest_price, price_history[i + 1])

\* the trailing-stop condition of an overlay agent at bar i
OverlayTrailingDue ==
    /\ agent.entry_price # None
    /\ agent.position_btc > 0
    /\ (price_history[i + 1] - HighAt) * 100 <= -(agent.trailing_stop_percentage * HighAt)

\* C13: decide of a trailing-stop overlay tests the stop-loss before the
\* trailing stop: where both conditions hold the forced SELL is the stop-loss
\* one, where only the trailing stop holds it is the trailing one, and either
\* way entry_price and highest_price are cleared.
ThmC13 ==
    [][(DecideDue /\ agent.kind = "MaAgentWithTrailingStop") =>
          /\ OverlayStopLossDue =>
                 /\ decision' = Decision("SELL", 1000, price_history[i + 1],
                                         "Stop Loss triggered")
                 /\ agent'.entry_price = None
                 /\ agent'.highest_price = None
          /\ (OverlayTrailingDue /\ ~OverlayStopLossDue) =>
                 /\ decision' = Decision("SELL", 1000, price_history[i + 1],
                                         "Trailing Stop triggered")
                 /\ agent'.entry_price = None
                 /\ agent'.highest_price = None]_vars

\* a trailing-stop overlay has just forced the stop-loss SELL on a bar whose
\* price is also trailing_pct below every price seen since the entry
WitC13 ==
    /\ agent.kind = "MaAgentWithTrailingStop"
    /\ pc = "update"
    /\ decision.reason = "Stop Loss triggered"
    /\ agent.entry_price = None
    /\ agent.highest_price = None
    /\ entryBar # None
    /\ \A k \in (entryBar + 1)..i :
           LossTriggered(price_history[i + 1], price_history[k],
                         agent.trailing_stop_percentage)

\* the two sums MaAgent.decide compares at bar i: short_ma > long_ma iff
\* ShortSum * long_window > LongSum * short_window
ShortSum == Sum(LastN(LastN(HistoryAt(i), agent.long_window), agent.short_window))
LongSum == Sum(LastN(HistoryAt(i), agent.long_window))

ConstantSeries(s) == \A k \in 1..Len(s) : s[k] = s[1]

StrictlyIncreasing(s) == \A k \in 1..(Len(s) - 1) : s[k] < s[k + 1]

ForcedReasons == {"Stop Loss triggered", "Trailing Stop triggered"}

\* C17: on a strictly increasing price series, with a positive stop_loss_pct,
\* no stop-loss fires during run_simulation in either fill mode: neither the
\* simulator's forced sale nor a forced SELL of an overlay, and the
\* (weighted-average) entry_price never exceeds the price of the bar being
\* processed.
ClaimC17 ==
    StrictlyIncreasing(price_history) =>
        /\ \A k \in 1..Len(decisions) : decisions[k].reason \notin ForcedReasons
        /\ decision.reason \notin ForcedReasons
        /\ LastCall # "stop_loss_sale"
        /\ (pc # "done" /\ i < Len(price_history) /\ entry_price # None)
               => entry_price <= price_history[i + 1]

\* C17 for the first run_simulation call on a new agent
ClaimC17FirstRun == run = 1 => ClaimC17

\* C18: execute_trade with a HOLD decision returns no order and leaves
\* balance, btc_holdings, entry_price and the trade log as they were, in both
\* fill modes.
ThmC18 ==
    [][(pc = "execute" /\ decision.action = "HOLD") =>
          /\ order' = <<>>
          /\ balance' = balance
          /\ btc_holdings' = btc_holdings
          /\ entry_price' = entry_price
          /\ trades' = trades
          /\ decisions' = decisions]_vars

\* a HOLD has just been passed to execute_trade while a position is open and
\* cash is left
WitC18 ==
    /\ LastCall = "execute_trade"
    /\ decision.action = "HOLD"
    /\ decision.reason = "MA crossover neutral"
    /\ order = <<>>
    /\ btc_holdings > 0
    /\ balance > 0
    /\ entry_price # None

\* the indices lo, lo + 1, ..., hi - 1 in increasing order
Range(lo, hi) == [k \in 1..(IF hi > lo THEN hi - lo ELSE 0) |-> lo + k - 1]

Running == pc \in {"loop", "update", "execute"}

\* steps of run_simulation left before it returns
StepsLeft ==
    IF i >= Len(price_history) THEN 0
    ELSE 3 * (Len(price_history) - i)
         - (IF pc = "update" THEN 1 ELSE IF pc = "execute" THEN 2 ELSE 0)

\* C19: run_simulation produces one decision (of the agent, or the forced
\* stop-loss) for each index lookback .. len(bars) - 1, once and in increasing
\* order, the agent's from history = bars[i - lookback .. i - 1]; it then
\* terminates (every step inside the call is enabled and brings the return
\* nearer); with lookback = len(bars) - 1 exactly one decision is produced.
ThmC19 ==
    /\ [](/\ pc = "loop" => seen = Range(lookback_window, i)
          /\ pc \in {"update", "execute"} => seen = Range(lookback_window, i + 1)
          /\ pc = "done" => seen = Range(lookback_window, Len(price_history))
          /\ (pc = "done" /\ lookback_window = Len(price_history) - 1)
                 => Len(seen) = 1
          /\ Running => ENABLED Next)
    /\ [][(pc = "loop" /\ i < Len(price_history)) =>
             \/ /\ calls' = <<"decide">>
                /\ decision' = AgentDecide(agent, price_history[i + 1],
                                  SubSeq(price_history, i - lookback_window + 1, i)).d
                /\ Len(SubSeq(price_history, i - lookback_window + 1, i))
                       = lookback_window
                /\ i' = i
             \/ /\ calls' = <<"stop_loss_sale">>
                /\ i' = i + 1]_vars
    /\ [][Running => (IF pc' = "done" THEN StepsLeft = 0 ELSE StepsLeft' < StepsLeft)]_vars

\* a run over five bars has returned after three decisions, one of them the
\* forced stop-loss
WitC19 ==
    /\ pc = "done"
    /\ Len(price_history) = lookback_window + 3
    /\ seen = <<lookback_window, lookback_window + 1, lookback_window + 2>>
    /\ \E k \in 1..Len(decisions) : decisions[k].reason = "Stop Loss triggered"

\* a run with lookback = len(bars) - 1 has returned after its one decision
WitC19One ==
    /\ pc = "done"
    /\ lookback_window = Len(price_history) - 1
    /\ seen = <<lookback_window>>

\* the arguments of a direct decide call and the indicators of its closes
Returned == pc = "returned"
CurrentPrice == price_history[Len(price_history)]
UsesRsi == agent.kind \in {"RSIBBAgent", "RSIMACDBBAgent", "MultiTimeframeAgent"}
UsesMacd == agent.kind \in {"MACDBBAgent", "RSIMACDBBAgent", "MultiTimeframeAgent"}
UsesBands == agent.kind \in IndicatorKinds
MacdPrices == IF agent.kind = "MultiTimeframeAgent"
              THEN Append(history_1h, history_1h[Len(history_1h)])
              ELSE price_history

\* decide has enough closes to reach its indicator comparisons
EnoughHistory ==
    LET n == Len(price_history) - 1
    IN  /\ agent.kind = "MaAgent" => n >= agent.long_window
        /\ UsesRsi => n >= agent.rsi_period + 1
        /\ UsesBands => n >= agent.bb_period
        /\ agent.kind \in {"MACDBBAgent", "RSIMACDBBAgent"}
               => n >= agent.macd_slow + agent.macd_signal
        /\ agent.kind = "MultiTimeframeAgent"
               => Len(history_1h) >= agent.macd_slow + agent.macd_signal

RsiNow == calculate_rsi(price_history, agent.rsi_period)
BandsNow == calculate_bollinger_bands(price_history, agent.bb_period, agent.bb_num_std_dev)
MacdNow == calculate_macd(MacdPrices, agent.macd_fast, agent.macd_slow, agent.macd_signal)

\* exact equalities in the comparisons: short_ma = long_ma, RSI = a threshold,
\* histogram = 0, price = lower band, price = upper band
MaTie == agent.kind = "MaAgent" /\ ShortSum * agent.long_window = LongSum * agent.short_window
RsiTie == UsesRsi /\ (\/ RsiNow.num = agent.rsi_oversold * RsiNow.den
                      \/ RsiNow.num = agent.rsi_overbought * RsiNow.den)
HistogramTie == UsesMacd /\ MacdNow.histogram = 0
LowerBandTie ==
    /\ UsesBands
    /\ BandsNow.sum - BandsNow.period * CurrentPrice >= 0
    /\ (BandsNow.sum - BandsNow.period * CurrentPrice)
           * (BandsNow.sum - BandsNow.period * CurrentPrice)
         = BandsNow.num_std_dev * BandsNow.num_std_dev * BandsNow.dev2
UpperBandTie ==
    /\ UsesBands
    /\ BandsNow.period * CurrentPrice - BandsNow.sum >= 0
    /\ (BandsNow.period * CurrentPrice - BandsNow.sum)
           * (BandsNow.period * CurrentPrice - BandsNow.sum)
         = BandsNow.num_std_dev * BandsNow.num_std_dev * BandsNow.dev2

\* the buy (sell) signals of the agent's indicators other than the bands
OtherBuySignals ==
    /\ UsesRsi => RsiBelow(RsiNow, agent.rsi_oversold)
    /\ UsesMacd => (MacdNow.histogram > 0 /\ MacdNow.macd > MacdNow.signal)
OtherSellSignals ==
    /\ UsesRsi => RsiAbove(RsiNow, agent.rsi_overbought)
    /\ UsesMacd => (MacdNow.histogram < 0 /\ MacdNow.macd < MacdNow.signal)

WitC14Band ==
    /\ Returned
    /\ EnoughHistory
    /\ UsesMacd
    /\ LowerBandTie
    /\ ~ConstantSeries(price_history)
    /\ decision.action = "BUY"

\* C15: with enough history RSIBBAgent.decide returns BUY (confidence 0.9)
\* exactly when RSI < oversold and price <= lower band, SELL (0.9) exactly when
\* that fails and RSI > overbought and price >= upper band, and HOLD (0.5)
\* otherwise; one indicator signalling alone never gives a trade.
ThmC15 ==
    (Returned /\ EnoughHistory /\ agent.kind = "RSIBBAgent") =>
        LET rsi_buy == RsiNow.num < agent.rsi_oversold * RsiNow.den
            rsi_sell == RsiNow.num > agent.rsi_overbought * RsiNow.den
            lo == BandsNow.sum - BandsNow.period * CurrentPrice
            kk == BandsNow.num_std_dev * BandsNow.num_std_dev
            bb_buy == lo >= 0 /\ lo * lo >= kk * BandsNow.dev2
            bb_sell == -lo >= 0 /\ lo * lo >= kk * BandsNow.dev2
            buy == rsi_buy /\ bb_buy
            sell == ~buy /\ rsi_sell /\ bb_sell
        IN  /\ decision.action = "BUY" <=> buy
            /\ decision.action = "SELL" <=> sell
            /\ decision.action = "HOLD" <=> (~buy /\ ~sell)
            /\ decision.confidence = IF buy \/ sell THEN 900 ELSE 500
            /\ (~(rsi_buy \/ rsi_sell) \/ ~(bb_buy \/ bb_sell)) => decision.action = "HOLD"

\* RSIBBAgent has returned HOLD with the RSI oversold and the price inside the bands
WitC15 ==
    /\ Returned
    /\ EnoughHistory
    /\ agent.kind = "RSIBBAgent"
    /\ RsiBelow(RsiNow, agent.rsi_oversold)
    /\ ~AtOrBelowLower(CurrentPrice, BandsNow)
    /\ ~AtOrAboveUpper(CurrentPrice, BandsNow)
    /\ decision.action = "HOLD"

\* RSIBBAgent has returned BUY
WitC15Buy ==
    /\ Returned
    /\ agent.kind = "RSIBBAgent"
    /\ decision = Decision("BUY", 900, CurrentPrice, "RSI oversold")

\* occurrences of value x in sequence s
Occurrences(s, x) == Cardinality({k \in 1..Len(s) : s[k] = x})

\* the number of 1-hour bars not later than t
SlowUpTo(t) == Cardinality({k \in 1..Len(data_1h) : data_1h[k].timestamp <= t})

\* C20: align_timeframes returns, in ascending order of the fast timestamp,
\* exactly the fast bars that have a slow bar with timestamp <= their own,
\* each with idx = the number of slow bars with timestamp <= the fast bar's (a
\* slow bar of equal timestamp counts, a later one does not); fast bars with
\* no such slow bar give no row; whatever the order of the two inputs.
ThmC20 ==
    pc = "aligned" =>
        /\ \A j \in 1..(Len(aligned_data) - 1) :
               aligned_data[j].bar.timestamp <= aligned_data[j + 1].bar.timestamp
        /\ \A j \in 1..Len(aligned_data) :
               /\ aligned_data[j].idx = SlowUpTo(aligned_data[j].bar.timestamp)
               /\ aligned_data[j].idx > 0
        /\ \A b \in {data_15m[k] : k \in 1..Len(data_15m)} :
               Occurrences([j \in 1..Len(aligned_data) |-> aligned_data[j].bar], b)
                   = IF SlowUpTo(b.timestamp) > 0 THEN Occurrences(data_15m, b) ELSE 0
        /\ \A j \in 1..Len(aligned_data) :
               \E k \in 1..Len(data_15m) : data_15m[k] = aligned_data[j].bar
        /\ (data_15m = Scenario4Fast /\ data_1h = Scenario4Slow)
               => [j \in 1..Len(aligned_data) |-> aligned_data[j].idx]
                      = <<1, 1, 1, 1, 2, 2>>

\* unsorted inputs have been aligned: a fast bar before every slow bar was
\* dropped, one on a slow bar's timestamp counts that bar, a later fast bar
\* was given first
WitC20 ==
    /\ pc = "aligned"
    /\ Len(data_15m) = 3
    /\ data_15m[1].timestamp > data_15m[2].timestamp
    /\ Len(data_1h) = 2
    /\ data_1h[1].timestamp > data_1h[2].timestamp
    /\ Len(aligned_data) = 2
    /\ aligned_data[1].bar.timestamp = 60
    /\ aligned_data[1].idx = 2
    /\ \E k \in 1..3 : data_15m[k].timestamp = 15

\* the 15-minute bar of the row run_simulation is working on
CurrentFastBar == aligned_data[i + 1].bar

\* the 1-hour bars not later than t, in timestamp order
SlowBarsUpTo(t) == SubSeq(data_1h_sorted, 1, SlowUpTo(t))

\* C21: at every step i of MultiTimeframeSimulator.run_simulation the agent is
\* given only causal data: the fast history is exactly the lookback_window
\* aligned fast bars immediately before row i, the slow history is the last
\* lookback_window_1h of the slow bars with timestamp <= the current fast
\* bar's (all of them if fewer), never a later slow bar, and the decision is
\* computed from these and the current bar alone.
ThmC21 ==
    /\ [](pc = "execute" =>
            /\ Len(historical_15m) = lookback_window
            /\ \A j \in 1..lookback_window :
                   /\ historical_15m[j] = aligned_data[i - lookback_window + j].bar
                   /\ historical_15m[j].timestamp < CurrentFastBar.timestamp
            /\ \A j \in 1..Len(historical_1h_window) :
                   historical_1h_window[j].timestamp <= CurrentFastBar.timestamp
            /\ historical_1h_window
                   = LET upto == SlowBarsUpTo(CurrentFastBar.timestamp)
                     IN  IF Len(upto) > lookback_window_1h /\ lookback_window_1h > 0
                         THEN SubSeq(upto, Len(upto) - lookback_window_1h + 1, Len(upto))
                         ELSE upto)
    /\ [][(pc = "loop" /\ pc' = "execute") =>
            decision' = MultiTimeframeDecide(agent, CurrentFastBar.price,
                                             Closes(historical_15m'),
                                             Closes(historical_1h_window'))]_vars

\* a step of a run with a full fast window that trades while a 1-hour bar later
\* than the current fast bar exists
WitC21 ==
    /\ pc = "execute"
    /\ lookback_window = 3
    /\ Len(historical_1h_window) = lookback_window_1h
    /\ \E k \in 1..Len(data_1h) : data_1h[k].timestamp > CurrentFastBar.timestamp
    /\ decision.action # "HOLD"

\* a later step, where the earliest 1-hour bar fell out of the slow window
WitC21Window ==
    /\ pc = "execute"
    /\ lookback_window = 3
    /\ i > lookback_window
    /\ SlowUpTo(CurrentFastBar.timestamp) > lookback_window_1h
    /\ historical_1h_window[1] # data_1h_sorted[1]
    /\ decision.action # "HOLD"

\* C22: constructing a MultiTimeframeSimulator with fewer aligned rows than
\* lookback_window_15m raises an error and nothing runs; otherwise the
\* construction succeeds and every run_simulation call returns metrics.
ClaimC22 ==
    pc # "new" =>
        IF Len(aligned_data) < lookback_window
        THEN pc = "raised" /\ result = ValueError /\ run = 0
        ELSE /\ pc # "raised"
             /\ pc = "done" => result.status = "ok"

\* C22 for a simulator that has at least one aligned row
ClaimC22NonEmpty ==
    (pc # "new" /\ Len(aligned_data) > 0) =>
        IF Len(aligned_data) < lookback_window
        THEN pc = "raised" /\ result = ValueError /\ run = 0
        ELSE /\ pc # "raised"
             /\ pc = "done" => result.status = "ok"
             /\ pc \in {"idle", "done"} => ENABLED MtfRunSimulation \/ run = MaxMtfRuns


\* the members of a list
Elements(s) == {s[k] : k \in 1..Len(s)}

\* the (short, long) pairs the claim lets through, on a tuple that starts with one
QualifiesC23(t) ==
    /\ t[1] < t[2]
    /\ 2 * t[2] >= 3 * t[1]
    /\ Max(t[2] + 50, 60) + 100 < n_data

WitC23DataLength ==
    /\ driver = "find_best_window_sizes"
    /\ pc = "returned"
    /\ simulated # <<>>
    /\ \E t \in Elements(Product(axes)) :
           t[1] < t[2] /\ 2 * t[2] >= 3 * t[1] /\ ~QualifiesC23(t)

\* the (short, long) pairs of the simulated tuples
SimulatedPairs == [k \in 1..Len(simulated) |-> <<simulated[k][1], simulated[k][2]>>]

\* an MA-cross driver with short in {5, 10}, long in {5, 15}, min_ratio 1.5,
\* enough data, one value on every other axis, and the loop at its end
Scenario5 ==
    /\ MaDriver
    /\ axes[1] = <<5, 10>>
    /\ axes[2] = <<5, 15>>
    /\ \A k \in 3..Len(axes) : Len(axes[k]) = 1
    /\ n_data >= 1000
    /\ LoopDone

\* C24 as stated: with short in {5, 10}, long in {5, 15} and min_ratio 1.5 the
\* MA-cross grid search runs exactly one simulation, for (5, 15).
ClaimC24 == Scenario5 => SimulatedPairs = << <<5, 15>> >>

\* C24, amended: with short in {5, 10}, long in {5, 15} and min_ratio 1.5 the
\* MA-cross grid search runs exactly two simulations, for (5, 15) and then for
\* (10, 15), whose ratio 15 / 10 equals min_ratio and passes the filter; (5, 5)
\* and (10, 5) fail short < long.
ThmC24 == Scenario5 => SimulatedPairs = << <<5, 15>>, <<10, 15>> >>

\* the window-size search has returned from the grid of the scenario
WitC24 ==
    /\ Scenario5
    /\ driver = "find_best_window_sizes"
    /\ pc = "returned"
    /\ Len(results) = 2

\* the trailing-stop search has returned from the grid of the scenario
WitC24Trailing ==
    /\ Scenario5
    /\ driver = "grid_search_trailing_stop"
    /\ pc = "returned"

\* macd_fast and macd_slow of a tuple of a driver with MACD axes
MacdFastOf(t) == IF driver = "grid_search_rsi_macd_bb" THEN t[4] ELSE t[6]
MacdSlowOf(t) == IF driver = "grid_search_rsi_macd_bb" THEN t[5] ELSE t[7]

MacdDriver == driver \in {"grid_search_rsi_macd_bb", "grid_search_multi_timeframe"}

\* C25: in the drivers with MACD axes no tuple with macd_fast >= macd_slow is
\* simulated.
ThmC25 ==
    MacdDriver => \A k \in 1..Len(simulated) : MacdFastOf(simulated[k]) < MacdSlowOf(simulated[k])

\* a driver with MACD axes has returned after simulating a tuple, from axes
\* that hold a tuple with macd_fast = macd_slow and one with macd_fast > macd_slow
WitC25 ==
    /\ MacdDriver
    /\ pc = "returned"
    /\ simulated # <<>>
    /\ \E t \in Elements(Product(axes)) : MacdFastOf(t) = MacdSlowOf(t)
    /\ \E t \in Elements(Product(axes)) : MacdFastOf(t) > MacdSlowOf(t)

\* C27 as stated: in a grid search with a log file, a write to the log that
\* fails (an initial line, a progress line, the line for a failed tuple) does
\* not abort the search.
ClaimC27 == (log_file /\ logFailures > 0) => pc # "raised"

\* what holds of C27: in grid_search_multi_timeframe a progress line that
\* cannot be written leaves the loop running with the next tuple
ProgressLineC27 ==
    [][(driver = "grid_search_multi_timeframe" /\ pc = "progress log")
          => (pc' = "loop" /\ combo_idx' = combo_idx + 1 /\ results' = results)]_vars

\* C26 as stated: a simulation that raises does not abort the driver: when the
\* driver stops, every enumerated tuple has been simulated and the ranked list
\* holds exactly the results of the tuples that did not raise.
ClaimC26 ==
    (raisedFor # <<>> /\ pc \in {"returned", "raised"}) =>
        /\ Len(simulated) = Len(valid_combinations)
        /\ Len(results) = Len(simulated) - Len(raisedFor)
        /\ \A r \in Elements(results) :
               Occurrences(simulated, r.params) = 1 /\ Occurrences(raisedFor, r.params) = 0

\* what holds of C26: in a run without a failed log write, the loop simulates
\* every enumerated tuple, whether or not earlier ones raised, and the sorted
\* list holds exactly the results of the tuples that did not raise
NoLogFailureC26 ==
    (raisedFor # <<>> /\ logFailures = 0 /\ LoopDone /\ pc # "loop") =>
        /\ Len(simulated) = Len(valid_combinations)
        /\ Len(results) = Len(simulated) - Len(raisedFor)
        /\ \A r \in Elements(results) :
               Occurrences(simulated, r.params) = 1 /\ Occurrences(raisedFor, r.params) = 0
        /\ \A k \in 1..Len(simulated) :
               Occurrences(raisedFor, simulated[k]) = 0
                   => \E r \in Elements(results) : r.params = simulated[k]

\* a run without a failed log write has returned after the first tuple raised
\* and a later one was simulated and ranked
WitNoLogFailureC26 ==
    /\ pc = "returned"
    /\ logFailures = 0
    /\ Len(simulated) >= 2
    /\ raisedFor = <<simulated[1]>>
    /\ results # <<>>

\* the summary has been emitted
SummaryEmitted == pc \in {"returned", "final log"} \/ (pc = "raised" /\ DOMAIN summary # {})

\* C28 as stated: when some tuples failed, the summary emitted with the ranked
\* list reports the number of failed tuples, enumerated minus simulated with
\* success.
ClaimC28 ==
    (SummaryEmitted /\ Len(results) < Len(valid_combinations)) =>
        /\ "failed" \in DOMAIN summary
        /\ summary["failed"] = Len(valid_combinations) - Len(results)

\* what the summary does report: the number of results, and in
\* grid_search_multi_timeframe the number of enumerated tuples beside it
SummaryC28 ==
    SummaryEmitted =>
        /\ summary.total_tests = Len(results)
        /\ DOMAIN summary = IF driver = "grid_search_multi_timeframe"
                            THEN {"total_tests", "total_combinations"}
                            ELSE {"total_tests"}

\* parameter tuple a comes before b in lexicographic order, or equals it
LexLeq(a, b) ==
    \/ a = b
    \/ \E k \in 1..Len(a) :
          /\ \A j \in 1..(k - 1) : a[j] = b[j]
          /\ a[k] < b[k]

\* results is in descending order of profit_percentage
DescendingByProfit ==
    \A k \in 1..(Len(results) - 1) :
        results[k].profit_percentage >= results[k + 1].profit_percentage

\* C29 as stated: the returned list is sorted by profit_percentage in
\* descending order and results of equal profit_percentage are in
\* lexicographic order of their parameter tuples, whatever the order of the
\* axis values.
ClaimC29 ==
    pc = "returned" =>
        /\ DescendingByProfit
        /\ \A k \in 1..(Len(results) - 1) :
               results[k].profit_percentage = results[k + 1].profit_percentage
                   => LexLeq(results[k].params, results[k + 1].params)

\* position of a parameter tuple in the enumeration
EnumerationIndex(t) == CHOOSE k \in 1..Len(valid_combinations) : valid_combinations[k].params = t

\* what holds of C29: the returned list is in descending order of
\* profit_percentage and results of equal profit_percentage keep the order in
\* which their tuples were enumerated, which is lexicographic when every axis
\* is supplied in ascending order
StableOrderC29 ==
    pc = "returned" =>
        /\ DescendingByProfit
        /\ \A k \in 1..(Len(results) - 1) :
               results[k].profit_percentage = results[k + 1].profit_percentage
                   => EnumerationIndex(results[k].params) < EnumerationIndex(results[k + 1].params)
        /\ (\A a \in 1..Len(axes) : \A j \in 1..(Len(axes[a]) - 1) : axes[a][j] < axes[a][j + 1])
               => \A k \in 1..(Len(results) - 1) :
                      results[k].profit_percentage = results[k + 1].profit_percentage
                          => LexLeq(results[k].params, results[k + 1].params)

\* a driver has returned two results of equal profit whose tuples were
\* enumerated in descending order, and a result of greater profit ranked first
\* although it was simulated last
WitStableOrderC29 ==
    /\ pc = "returned"
    /\ Len(results) >= 3
    /\ results[2].profit_percentage = results[3].profit_percentage
    /\ ~LexLeq(results[2].params, results[3].params)
    /\ results[1].profit_percentage > results[2].profit_percentage
    /\ results[1].params = simulated[Len(simulated)]

\* C30: on one MultiTimeframeSimulator, the result of a run depends on its
\* parameter tuple alone: two finished runs with the same tuple have the same
\* result (balances, counts, trade list), whatever ran before them; the first
\* run on the object is the tuple simulated alone.
ThmC30 ==
    \A j, k \in 1..Len(finished) :
        finished[j].parameters = finished[k].parameters
            => finished[j].result = finished[k].result

\* three runs on one simulator: a tuple alone, another tuple that trades and
\* ends with a balance other than the initial one, then the first tuple again,
\* which trades too
WitC30 ==
    /\ Len(finished) = 3
    /\ finished[1].parameters = finished[3].parameters
    /\ finished[2].parameters # finished[1].parameters
    /\ finished[2].result.trades # <<>>
    /\ finished[2].result.final_balance # initial_balance
    /\ finished[3].result.trades # <<>>

\* the decision on hand came from an overlay's stop-loss or trailing stop
ForcedByOverlay ==
    /\ pc \in {"update", "execute"}
    /\ decision.action = "SELL"
    /\ decision.reason \in ForcedReasons

\* C34 as stated: whenever an overlay agent returns a forced SELL inside
\* run_simulation, the simulator holds a position (btc_holdings > 0 and
\* entry_price set), so the forced SELL becomes an order.
ClaimC34 == ForcedByOverlay => (btc_holdings > 0 /\ entry_price # None)

\* C34 in the first run of a new agent only
ClaimC34FirstRun == (run = 1 /\ ForcedByOverlay) => (btc_holdings > 0 /\ entry_price # None)

\* C35: in full-position mode (initial_btc = 0, initial balance > 0, positive
\* prices) the trade log of a run alternates BUY, SELL, BUY, ... starting with
\* BUY, the simulator's forced stop-loss sales being SELLs, and exactly one of
\* balance and btc_holdings is positive.
ThmC35 ==
    FullMode(simKind) =>
        /\ \A k \in 1..Len(trades) :
               trades[k].action = (IF k % 2 = 1 THEN "BUY" ELSE "SELL")
        /\ (balance > 0) # (btc_holdings > 0)
        /\ (btc_holdings > 0) <=> (Len(trades) % 2 = 1)

\* a full-position run right after the simulator's forced stop-loss sale closed
\* the position of its first BUY
WitC35 ==
    /\ FullMode(simKind)
    /\ AfterForced
    /\ Len(trades) = 2
    /\ decisions[2].reason = "Stop Loss triggered"
    /\ btc_holdings = 0
    /\ balance > 0

\* a full-position run holds its second position
WitC35Second ==
    /\ FullMode(simKind)
    /\ Len(trades) = 3
    /\ btc_holdings > 0
    /\ balance = 0

\* a full-position run that was refused a SELL while flat after two trades
WitC35Refused ==
    /\ FullMode(simKind)
    /\ AfterSuppressed
    /\ decision.action = "SELL"
    /\ Len(trades) = 2
    /\ Len(seen) >= 3

\* the positions of the trade log whose order was produced by a stop-loss:
\* the simulator's forced sale or an overlay's stop-loss SELL that was filled
StopLossOrders ==
    {k \in 1..Len(trades) :
        trades[k].action = "SELL" /\ decisions[k].reason = "Stop Loss triggered"}

\* C36: throughout a run the decision log and the trade log have the same
\* length and the k-th decision and the k-th order have the same action (and
\* price); a decision with a stop-loss or trailing-stop reason is paired with a
\* SELL order; and the stop_loss_trades of the returned metrics is the number
\* of logged SELL orders produced by a stop-loss.
ThmC36 ==
    /\ Len(decisions) = Len(trades)
    /\ \A k \in 1..Len(trades) :
           /\ decisions[k].action = trades[k].action
           /\ decisions[k].price = trades[k].price
           /\ decisions[k].reason \in ForcedReasons => trades[k].action = "SELL"
    /\ (pc = "done" /\ result.status = "ok")
           => result.stop_loss_trades = Cardinality(StopLossOrders)

\* a run has returned with a stop-loss sale among at least two orders, after a
\* decision of the agent was refused and logged nowhere
WitC36 ==
    /\ pc = "done"
    /\ result.status = "ok"
    /\ result.stop_loss_trades = 1
    /\ Len(trades) >= 2
    /\ Len(seen) > Len(trades)

\* a run has returned with an order of a trailing stop, which is no stop-loss
\* trade
WitC36Trailing ==
    /\ pc = "done"
    /\ result.status = "ok"
    /\ \E k \in 1..Len(decisions) : decisions[k].reason = "Trailing Stop triggered"
    /\ result.stop_loss_trades = 0

\* the simulator classes of simulator.py and multi_timeframe_simulator.py
TracksEntry == simKind \in {"TradingSimulator", "FullPositionSimulator"}

\* C37: when execute_trade fills a BUY of new_amount at price p on top of
\* old_holdings > 0 with entry old_entry, entry_price becomes
\* (old_holdings * old_entry + new_amount * p) / (old_holdings + new_amount),
\* to the nearest cent, which lies between old_entry and p; a filled BUY from a
\* flat position sets entry_price = p.
ThmC37 ==
    [][(TracksEntry /\ pc = "execute" /\ order' # <<>> /\ order'[1].action = "BUY") =>
          LET p == order'[1].price
              new_amount == order'[1].amount
              total == btc_holdings + new_amount
              weighted == btc_holdings * entry_price + new_amount * p
          IN  IF btc_holdings > 0
              THEN /\ entry_price # None
                   /\ 2 * (entry_price' * total - weighted) <= total
                   /\ 2 * (weighted - entry_price' * total) <= total
                   /\ Min(entry_price, p) <= entry_price'
                   /\ entry_price' <= Max(entry_price, p)
              ELSE entry_price' = p]_vars

\* a fractional run right after its second BUY, filled at another price than
\* the first: the entry price is strictly between the two fill prices and
\* nearer to the first, larger fill
WitC37 ==
    /\ simKind = "TradingSimulator"
    /\ AfterExecuted("BUY")
    /\ Len(trades) = 2
    /\ trades[1].action = "BUY"
    /\ trades[1].price < trades[2].price
    /\ trades[1].price < entry_price
    /\ 2 * entry_price < trades[1].price + trades[2].price

\* a full-position run right after a BUY from a position closed before
WitC37Flat ==
    /\ simKind = "FullPositionSimulator"
    /\ AfterExecuted("BUY")
    /\ Len(trades) = 3
    /\ entry_price = trades[3].price
    /\ entry_price # trades[1].price

\* balance + btc_holdings * p at price p, in 1/1000 cent
MarkToMarket(bal, hold, p) == bal * UnitsPerBtc + hold * p

\* the most by which rounding to cents and to 1/1000 BTC can move the value of
\* a fill at price p, in 1/1000 cent, doubled
RoundingSlack2(p) == p + 3 * UnitsPerBtc

\* quote amount * fee_rate, both in 1/1000 cent, computed without overflow
FeeOfQuote(quote, fee_rate) ==
    (quote \div 1000) * fee_rate + ((quote % 1000) * fee_rate) \div 1000

\* the amounts of the call are whole cents and whole 1/1000 BTC, so that the
\* fixed-point fill is the fill of the program
ExactFill ==
    LET p == price_history[1]
    IN  IF decision.action = "BUY"
        THEN LET num == IF FullMode(simKind) THEN balance * 1000 ELSE balance
                 den == IF FullMode(simKind) THEN 1000 + call_fee_rate ELSE 10
                 order_amount_usd == num \div den
             IN  /\ num % den = 0
                 /\ (order_amount_usd * UnitsPerBtc) % p = 0
                 /\ (order_amount_usd * call_fee_rate) % 1000 = 0
        ELSE LET btc_amount == IF FullMode(simKind) THEN btc_holdings
                                                   ELSE btc_holdings \div 10
             IN  /\ FullMode(simKind) \/ btc_holdings % 10 = 0
                 /\ (btc_amount * p) % UnitsPerBtc = 0
                 /\ (((btc_amount * p) \div UnitsPerBtc) * call_fee_rate) % 1000 = 0

\* C40: every fill of execute_trade at price p changes balance +
\* btc_holdings * p by minus the fee, the traded quote amount times fee_rate,
\* for BUY and SELL in the fractional and the full-position model (up to the
\* rounding of amounts to cents and 1/1000 BTC, and exactly where the amounts
\* are whole); with fee_rate = 0 the value at the fill price is unchanged; a
\* refused call changes nothing.
ThmC40 ==
    [][pc = "call" =>
          LET p == price_history[1]
              change == MarkToMarket(balance', btc_holdings', p)
                            - MarkToMarket(balance, btc_holdings, p)
          IN  IF order' = <<>>
              THEN change = 0
              ELSE LET fee == FeeOfQuote(order'[1].amount * p, call_fee_rate)
                       off == change + fee
                   IN  /\ 2 * off <= RoundingSlack2(p)
                       /\ 2 * off >= -RoundingSlack2(p)
                       /\ ExactFill => off = 0]_vars

\* a fractional BUY of 100.00 at price 100.00 and fee rate 0.001 was filled:
\* the value fell by the fee of 0.10 exactly
WitC40 ==
    /\ pc = "returned"
    /\ simKind = "TradingSimulator"
    /\ call_fee_rate = 1
    /\ order # <<>>
    /\ order[1] = Order("BUY", 1000, 10000)
    /\ balance = 100000 - 10000 - 10
    /\ btc_holdings \in {1000 + h : h \in FillHoldings}

\* fills with whole amounts happen for both actions in both models
WitC40Exact ==
    /\ pc = "returned"
    /\ order # <<>>
    /\ call_fee_rate = 10
    /\ \/ FullMode(simKind) /\ order[1] = Order("SELL", 1000, 10000) /\ balance \in {9900 + b : b \in FillBalances}
       \/ ~FullMode(simKind) /\ order[1] = Order("SELL", 100, 10000) /\ btc_holdings = 900
       \/ ~FullMode(simKind) /\ order[1] = Order("BUY", 1000, 10000) /\ balance = 100000 - 10000 - 100

\* a full-position SELL at fee rate 0.01 was filled
WitC40FullSell ==
    /\ pc = "returned"
    /\ FullMode(simKind)
    /\ call_fee_rate = 10
    /\ order # <<>>
    /\ order[1].action = "SELL"
    /\ order[1].amount = 10571
    /\ btc_holdings = 0

\* a full-position BUY at fee rate 0 was filled
WitC40ZeroFee ==
    /\ pc = "returned"
    /\ FullMode(simKind)
    /\ call_fee_rate = 0
    /\ order # <<>>
    /\ order[1].action = "BUY"
    /\ balance = 0

\* the run on hand cannot give its agent macd_slow + macd_signal slow bars
\* if the window holds at most lookback_window_1h of them
ShortSlowWindow ==
    /\ pc \in {"loop", "execute", "done"}
    /\ run > 0
    /\ agent.macd_slow + agent.macd_signal > lookback_window_1h

\* C38 as stated: in MultiTimeframeSimulator.run_simulation with macd_slow +
\* macd_signal > lookback_window_1h every decision of the run is HOLD, no
\* order is logged and final_value equals initial_balance.
ClaimC38 ==
    ShortSlowWindow =>
        /\ pc = "execute" => decision.action = "HOLD"
        /\ trades = <<>>
        /\ pc = "done" => result.final_value = initial_balance

\* the same with a window of at least one bar: the agent is then given at most
\* lookback_window_1h slow bars and holds
HoldsWithPositiveWindowC38 ==
    (ShortSlowWindow /\ lookback_window_1h > 0) =>
        /\ pc = "execute" =>
               /\ Len(historical_1h_window) <= lookback_window_1h
               /\ decision.action = "HOLD"
        /\ trades = <<>>
        /\ pc = "done" => result.final_value = initial_balance

\* a run with a window of three slow bars and an agent that needs four ended
WitPositiveWindowC38 ==
    /\ ShortSlowWindow
    /\ lookback_window_1h = 3
    /\ pc = "done"
    /\ Len(seen) >= 2
    /\ Len(data_1h_sorted) > 3

\* a run with lookback_window_1h = 0 ended with an order logged and a final
\* value other than the initial balance
TradedWithEmptyWindowC38 ==
    /\ ShortSlowWindow
    /\ lookback_window_1h = 0
    /\ pc = "done"
    /\ trades # <<>>
    /\ result.final_value # initial_balance

\* C32 as stated: load_price_data_from_csv returns the bars sorted ascending
\* by timestamp, whatever the order of the rows in the file.
ClaimC32 ==
    pc = "loaded" =>
        \A k \in 1..(Len(price_data) - 1) :
            price_data[k].timestamp <= price_data[k + 1].timestamp

\* what the loader returns: the rows whose cells both convert, in file order
FileOrderC32 ==
    pc = "loaded" =>
        /\ price_data = LoadRows(csv_rows)
        /\ \A j, k \in 1..Len(csv_rows) :
               (j < k /\ LoadRows(<<csv_rows[j]>>) # <<>> /\ LoadRows(<<csv_rows[k]>>) # <<>>)
                   => \E a, b \in 1..Len(price_data) :
                          /\ a < b
                          /\ <<price_data[a]>> = LoadRows(<<csv_rows[j]>>)
                          /\ <<price_data[b]>> = LoadRows(<<csv_rows[k]>>)

\* C33 as stated: the loader skips the rows whose price is not a positive
\* number (unparseable, zero or negative) and the rows whose timestamp fails
\* both formats, so every bar it returns has price > 0.
ClaimC33 ==
    pc = "loaded" =>
        /\ \A k \in 1..Len(price_data) :
               price_data[k].price # NaN /\ price_data[k].price > 0
        /\ Len(price_data) =
               Cardinality({k \in 1..Len(csv_rows) :
                               /\ ParseTimestamp(csv_rows[k].timestamp) # Raised
                               /\ float(strip(csv_rows[k].price)) \notin {Raised, NaN}
                               /\ float(strip(csv_rows[k].price)) > 0})

\* what the loader skips: the rows with a cell that does not convert
SkippedRowsC33 ==
    pc = "loaded" =>
        Len(price_data) =
            Cardinality({k \in 1..Len(csv_rows) :
                            /\ ParseTimestamp(csv_rows[k].timestamp) # Raised
                            /\ float(strip(csv_rows[k].price)) # Raised})

\* a file of three rows was loaded: one skipped for its timestamp, one kept
\* although its price is zero, one read in the second format
WitSkippedRowsC33 ==
    /\ pc = "loaded"
    /\ Len(csv_rows) = 3
    /\ csv_rows[1].timestamp = "01/02/2024 03:00:00"
    /\ csv_rows[2].price = "0"
    /\ csv_rows[3].timestamp = "2024-1-1 2:00:00"
    /\ Len(price_data) = 2
    /\ price_data[2].timestamp = 120

\* the parameters of the first n entries of the plan
PlanPrefix(n) == [k \in 1..n |-> experiments[k].params]

\* the results that carry the parameters and the experiment value of entry e
ResultsOf(e) ==
    {k \in 1..Len(results) :
        /\ results[k].params = e.params
        /\ results[k].experiment_number = e.experiment}

\* at every point of the run the simulator has been invoked for the entries
\* taken so far, once each and in the order of the plan, and every result
\* belongs to an entry taken: no more results carry an entry's parameters and
\* experiment value than entries with them were simulated
InPlanOrder ==
    pc \in {"loop", "returned"} =>
        /\ simulated = PlanPrefix(combo_idx)
        /\ \A k \in 1..Len(results) :
               /\ results[k].lookback_window = RsiMacdBbLookback(results[k].params)
               /\ \E j \in 1..combo_idx :
                      /\ experiments[j].params = results[k].params
                      /\ experiments[j].experiment = results[k].experiment_number
        /\ \A e \in PlanEntries :
               Cardinality(ResultsOf(e)) <=
                   Cardinality({j \in 1..combo_idx : experiments[j] = e})
        /\ Len(results) + Len(raisedFor) = combo_idx
        /\ pc = "returned" => combo_idx = Len(experiments)

\* C31: once run_l18_grid_search has its data and its plan, it invokes the
\* simulator once per entry of the plan's experiments list, in list order and
\* with that entry's parameters, until the list is exhausted and it returns;
\* every result carries in experiment_number the experiment value of the
\* entry that produced it, also after the ranking.
ThmC31 ==
    /\ []InPlanOrder
    /\ (pc = "loop") ~> (pc = "returned" /\ simulated = PlanPrefix(Len(experiments)))

\* a plan of three entries whose experiment values are not their positions
\* was run: one simulation raised, and the ranking put the result of the last
\* entry first
WitC31 ==
    /\ pc = "returned"
    /\ Len(experiments) = 3
    /\ experiments[1].experiment = 2
    /\ experiments[3].experiment = 1
    /\ experiments[1].params # experiments[3].params
    /\ Len(results) = 2
    /\ Len(raisedFor) = 1
    /\ results[1].params = experiments[3].params
    /\ results[1].experiment_number = 1
    /\ results[2].experiment_number = 2

\* the search is over and its list is ranked
Ranked == pc \in {"returned", "final log"} \/ (pc = "raised" /\ DOMAIN summary # {})

\* C39 as stated: after a grid search in which at least one tuple succeeded,
\* best_result is the first element of the ranked list: it has the maximum
\* profit_percentage and is the first enumerated of the results with it.
ClaimC39 ==
    (Ranked /\ results # <<>>) =>
        /\ best_result = <<results[1]>>
        /\ \A k \in 1..Len(results) :
               best_result[1].profit_percentage >= results[k].profit_percentage

\* the same on data without a nan price
BestIsFirstC39 ==
    (Ranked /\ results # <<>> /\ \A k \in 1..Len(results) : results[k].profit_percentage # NaN) =>
        /\ best_result = <<results[1]>>
        /\ \A k \in 1..Len(results) :
               best_result[1].profit_percentage >= results[k].profit_percentage

\* a search ended with two results of the greatest profit and one of less
\* simulated between them
WitBestIsFirstC39 ==
    /\ Ranked
    /\ Len(results) = 3
    /\ results[1].profit_percentage = results[2].profit_percentage
    /\ results[2].profit_percentage > results[3].profit_percentage
    /\ results[3].profit_percentage # NaN
    /\ best_result = <<results[1]>>

====
